---- MODULE Spec2Model ----
(***************************************************************************)
(* A model of channel_rides_helper: the store (app/db.py), the vote        *)
(* ledger (app/services/vote_service.py, app/handlers/callbacks.py) and    *)
(* the registration placement engine (app/services/registration.py,        *)
(* app/handlers/channel_watcher.py, app/handlers/discussion_watcher.py).   *)
(*                                                                         *)
(* Every `await` of the source is a point where another handler task may   *)
(* run, so a handler is a process whose steps are the store and gateway    *)
(* calls it awaits.  One store statement is one atomic step (aiosqlite     *)
(* runs the statements of the single shared connection one at a time).     *)
(***************************************************************************)
EXTENDS Integers, Sequences, FiniteSets

VARIABLES
    votes,          \* the votes table: a set of rows
    now,            \* the clock read by datetime.now(timezone.utc)
    vote_cooldown,  \* config.vote_cooldown / VoteService.vote_cooldown
    vp,             \* the button-press (vote) handler tasks
    lastResult,     \* outcome of the latest VoteService.cast_vote call
    casts,          \* number of casts started so far
    ledger,         \* per (post, user): what the recorded casts so far amount to
    payload,        \* the card payload of the latest edit update_registration sent
    show_changed_mind_stats,    \* config.show_changed_mind_stats
    lastRender,     \* what the latest update_registration call did and returned
    require_vote_to_see_voters, \* config.button_config.require_vote_to_see_voters
    lastVoters,     \* what the latest handle_voters call did
    posts,          \* the posts table: rows in insertion (created_at) order
    registration_mode,      \* config.registration_mode, the preferred mode
    ride_filter,            \* config.ride_filter, the content filter
    discussion_group_id,    \* config.discussion_group_id, or NoChat
    cp,             \* the tasks of the placement engine and its handlers
    processing,     \* _processing_media_groups (channel_watcher.py)
    cards,          \* the card messages the gateway has accepted
    nextId,         \* the id the gateway gives the next message it accepts
    faults,         \* store write errors raised so far
    events,         \* number of engine operations started so far
    mapped,         \* source posts whose copy in the group has been handled
    first           \* per album: the channel post of it that arrived first

voteVars == <<votes, now, vote_cooldown, vp, lastResult, casts, ledger, payload,
              show_changed_mind_stats, lastRender, require_vote_to_see_voters,
              lastVoters>>
cardVars == <<payload, show_changed_mind_stats, lastRender,
              require_vote_to_see_voters, lastVoters>>
regVars == <<posts, registration_mode, ride_filter, discussion_group_id, cp, processing,
             cards, nextId, faults, events, mapped, first>>
vars == <<votes, now, vote_cooldown, vp, lastResult, casts, ledger, payload,
          show_changed_mind_stats, lastRender, require_vote_to_see_voters,
          lastVoters, posts,
          registration_mode, ride_filter, discussion_group_id, cp, processing, cards,
          nextId, faults, events, mapped, first>>

----------------------------------------------------------------------------
(* Bounds of the model *)

MaxTime == 2        \* the clock runs 0..MaxTime
MaxCooldown == 2    \* the configured cooldown is 0..MaxCooldown
MaxCasts == 3       \* casts (button presses) started in one behaviour

MaxEvents == 2      \* engine operations (events, calls) started in one behaviour
MaxFaults == 1      \* store write errors in one behaviour
MaxSent == 2        \* card edits accepted by the gateway in one behaviour
MaxRequests == 2    \* voters-list requests in one behaviour

VoteMsgs == {1, 2}  \* posts that receive votes
Users == {1, 2}     \* user ids
VProcs == {1, 2}    \* concurrently running button-press handlers
Msgs == {1, 2, 3}   \* source message ids of the channel
Procs == {1, 2}     \* concurrently running engine tasks

----------------------------------------------------------------------------
(* Domain values *)

\* VoteStatus (domain/models.py)
Statuses == {"join", "maybe", "decline"}

\* the absent row: fetchone() returning None
NoRow == [none |-> TRUE]

----------------------------------------------------------------------------
(* The votes table *)

\* UNIQUE(channel_id, channel_message_id, user_id): the rows of one key
VoteRows(vs, m, u) == {r \in vs : r.msg = m /\ r.user = u}

\* SELECT first_status, ever_joined ... ; fetchone()
SelectVote(vs, m, u) ==
    IF VoteRows(vs, m, u) = {} THEN NoRow
    ELSE CHOOSE r \in VoteRows(vs, m, u) : TRUE

\* Python truthiness of the INTEGER column, then "1 if ever_joined else 0"
EverJoinedOnUpdateNoOr(existing, status) ==
    IF status = "join" THEN 1 ELSE 0

EverJoinedOnUpdate(existing, status) ==
    IF existing.ever_joined # 0 \/ status = "join" THEN 1 ELSE 0

\* an UPDATE that also overwrites first_status
UpdateVoteResetFirst(vs, m, u, status, ej, t) ==
    {IF r.msg = m /\ r.user = u
        THEN [r EXCEPT !.status = status, !.first_status = status,
                       !.ever_joined = ej, !.updated_at = t]
        ELSE r : r \in vs}

\* UPDATE votes SET status, ever_joined, updated_at WHERE key
UpdateVote(vs, m, u, status, ej, t) ==
    {IF r.msg = m /\ r.user = u
        THEN [r EXCEPT !.status = status, !.ever_joined = ej, !.updated_at = t]
        ELSE r : r \in vs}

\* INSERT INTO votes: the UNIQUE constraint rejects a second row of the key
InsertVoteRejected(vs, m, u) == VoteRows(vs, m, u) # {}

InsertVote(vs, m, u, status, t) ==
    vs \cup {[msg |-> m, user |-> u, status |-> status, first_status |-> status,
              ever_joined |-> IF status = "join" THEN 1 ELSE 0,
              updated_at |-> t]}

\* an upsert that always inserts
UpsertWriteInsertOnly(vs, existing, m, u, status, t) == InsertVote(vs, m, u, status, t)

\* The write half of upsert_vote, given the row its SELECT returned
UpsertWrite(vs, existing, m, u, status, t) ==
    IF existing # NoRow
        THEN UpdateVote(vs, m, u, status, EverJoinedOnUpdate(existing, status), t)
        ELSE InsertVote(vs, m, u, status, t)

\* upsert_vote raises (IntegrityError) when it inserts a key that exists
UpsertRaises(vs, existing, m, u) ==
    existing = NoRow /\ InsertVoteRejected(vs, m, u)

\* get_last_vote_time: updated_at of the key's row, or None
NoTime == -1

\* a lookup without the post in its WHERE clause: the user's latest vote anywhere
GetLastVoteTimeAnyPost(vs, m, u) ==
    IF {r \in vs : r.user = u} = {} THEN NoTime
    ELSE (CHOOSE r \in {x \in vs : x.user = u} :
             \A r2 \in {x \in vs : x.user = u} : r.updated_at >= r2.updated_at).updated_at

GetLastVoteTime(vs, m, u) ==
    IF VoteRows(vs, m, u) = {} THEN NoTime
    ELSE (CHOOSE r \in VoteRows(vs, m, u) : TRUE).updated_at

\* a check that takes a declined vote for no vote
UserHasVotedNotDeclined(vs, m, u) ==
    SelectVote(vs, m, u) # NoRow /\ SelectVote(vs, m, u).status # "decline"

\* user_has_voted: the last vote time of the key is not None
UserHasVoted(vs, m, u) == GetLastVoteTime(vs, m, u) # NoTime

\* a check that also refuses a cast made exactly cooldown seconds later
RateLimitedInclusive(last, t, cooldown) ==
    cooldown > 0 /\ last # NoTime /\ t - last <= cooldown

\* _check_rate_limit / the handler's check: too soon after the last vote
RateLimited(last, t, cooldown) ==
    cooldown > 0 /\ last # NoTime /\ t - last < cooldown

\* get_vote_counts: SELECT status, COUNT(*) ... GROUP BY status, zero by default
GetVoteCounts(vs, m) ==
    [s \in Statuses |-> Cardinality({r \in vs : r.msg = m /\ r.status = s})]

\* a count by first_status instead of ever_joined
GetChangedMindCountFirst(vs, m) ==
    Cardinality({r \in vs : r.msg = m /\ r.first_status = "join" /\ r.status # "join"})

\* get_changed_mind_count: COUNT(*) ... AND ever_joined = 1 AND status != 'join'
GetChangedMindCount(vs, m) ==
    Cardinality({r \in vs : r.msg = m /\ r.ever_joined = 1 /\ r.status # "join"})

\* the rows of post m with status s
StatusRows(vs, m, s) == {r \in vs : r.msg = m /\ r.status = s}

\* a voters query without updated_at in its ORDER BY: the rows in any order
GetVotersByStatusUnordered(vs, m, s) ==
    LET rs == StatusRows(vs, m, s)
        n == Cardinality(rs)
    IN  {[i \in 1..n |-> f[i].user] :
            f \in {g \in [1..n -> rs] : \A i, j \in 1..n : i # j => g[i] # g[j]}}

\* get_voters_by_status: SELECT status, user_id ... ORDER BY status, updated_at,
\* appended per status; the lists the query may return for status s (rows with
\* equal updated_at come in an order SQL leaves open)
GetVotersByStatus(vs, m, s) ==
    LET rs == StatusRows(vs, m, s)
        n == Cardinality(rs)
    IN  {[i \in 1..n |-> f[i].user] :
            f \in {g \in [1..n -> rs] :
                      /\ \A i, j \in 1..n : i # j => g[i] # g[j]
                      /\ \A i, j \in 1..n : i < j => g[i].updated_at <= g[j].updated_at}}

\* a card text that counts the votes of every post
RegistrationTextAllPosts(vs, m, show) ==
    [join |-> Cardinality({r \in vs : r.status = "join"}),
     maybe |-> Cardinality({r \in vs : r.status = "maybe"}),
     decline |-> Cardinality({r \in vs : r.status = "decline"}),
     changed_shown |-> FALSE, changed_mind |-> 0]

\* _create_registration_text lines 111-119: the text built from the two values
\* read: the three counts, and the changed-mind line when it is configured and
\* the count is positive
CardText(counts, changed_mind, show) ==
    [join |-> counts["join"], maybe |-> counts["maybe"],
     decline |-> counts["decline"],
     changed_shown |-> show /\ changed_mind > 0,
     changed_mind |-> IF show /\ changed_mind > 0 THEN changed_mind ELSE 0]

\* _create_registration_text with no other task between its two reads
RegistrationText(vs, m, show) ==
    CardText(GetVoteCounts(vs, m), GetChangedMindCount(vs, m), show)

----------------------------------------------------------------------------
(* The vote handler tasks *)

NoResult == [outcome |-> "none", remaining |-> 0, user |-> 0, msg |-> 0,
             fault |-> "none"]

\* no cast of the user on the post has been recorded
NoCast == [joined |-> FALSE, first |-> "none", last |-> "none", at |-> NoTime]

NoLedger == [k \in VoteMsgs \X Users |-> NoCast]

\* a cast of status s by user u on post m is recorded at time t
LedgerAfter(l, m, u, s, t) ==
    [l EXCEPT ![<<m, u>>] = [joined |-> @.joined \/ s = "join",
                             first |-> IF @.first = "none" THEN s ELSE @.first,
                             last |-> s, at |-> t]]


----------------------------------------------------------------------------
(* The posts table *)

\* RegistrationMode (domain/models.py)
EDIT_CHANNEL == "edit_channel"
DISCUSSION_THREAD == "discussion_thread"
CHANNEL_REPLY_POST == "channel_reply_post"
Modes == {EDIT_CHANNEL, DISCUSSION_THREAD, CHANNEL_REPLY_POST}

\* config.rides_channel_id, config.discussion_group_id and None
Channel == "channel"
Group == "group"
NoChat == "None"

\* a NULL message id column
NoId == 0

\* the card text before any edit, and no edit sent yet
NoText == [join |-> 0, maybe |-> 0, decline |-> 0,
           changed_shown |-> FALSE, changed_mind |-> 0]
NoPayload == [src |-> 0, chat |-> NoChat, id |-> NoId, text |-> NoText, sent |-> 0]

\* handle_voters has not been called yet
NoVoters == [user |-> 0, msg |-> 0, result |-> "none", sent |-> NoId,
             list |-> [s \in Statuses |-> <<>>], requests |-> 0]

\* a handler task of callbacks.py (kind "press": handle_vote) or a
\* VoteRepository.get_counts call (kind "counts"): what it has read so far
\* (existing, counts, changed_mind, the card location at) and how its store
\* part (result) and its card refresh (render) ended
IdleVp == [kind |-> "press", pc |-> "idle", user |-> 0, msg |-> 0, status |-> "join",
           existing |-> NoRow, result |-> "none",
           counts |-> [s \in Statuses |-> 0], changed_mind |-> 0,
           at |-> [chat |-> NoChat, id |-> NoId], render |-> "none"]

\* update_registration has not been called yet
NoRender == [msg |-> 0, result |-> "none", edits |-> 0,
             at |-> [chat |-> NoChat, id |-> NoId], accepted |-> FALSE]

\* message.media_group_id: the messages of one album share it, others have none
NoAlbum == "None"
Albums == {"album"}
AlbumOf(m) == IF m \in {1, 2} THEN "album" ELSE NoAlbum

\* the id of the copy of source post m in the discussion group
DiscussionIdOf(m) == 10 + m

\* a get_post that finds no row
GetPostMiss(ps, m) == NoRow

\* get_post: SELECT * FROM posts WHERE channel_id = ? AND channel_message_id = ?
GetPost(ps, m) ==
    IF \E i \in DOMAIN ps : ps[i].msg = m
        THEN ps[CHOOSE i \in DOMAIN ps : ps[i].msg = m /\
                       \A j \in DOMAIN ps : ps[j].msg = m => i <= j]
        ELSE NoRow

\* a get_post_by_media_group that finds no row
GetPostByMediaGroupMiss(ps, a) == NoRow

\* get_post_by_media_group: ... WHERE media_group_id = ? ORDER BY created_at ASC LIMIT 1
GetPostByMediaGroup(ps, a) ==
    IF \E i \in DOMAIN ps : ps[i].media_group_id = a
        THEN ps[CHOOSE i \in DOMAIN ps : ps[i].media_group_id = a /\
                       \A j \in DOMAIN ps : ps[j].media_group_id = a => i <= j]
        ELSE NoRow

\* a posts table without its UNIQUE constraint
CreatePostNeverRejected(ps, m) == FALSE

\* create_post: UNIQUE(channel_id, channel_message_id) raises IntegrityError,
\* which create_post catches and turns into "return False"
CreatePostRejected(ps, m) == \E i \in DOMAIN ps : ps[i].msg = m

\* create_post: the INSERT (voters_message_id and discussion_message_id stay NULL)
CreatePost(ps, m, mode, chat, id, album) ==
    IF CreatePostRejected(ps, m) THEN ps
    ELSE Append(ps, [msg |-> m, mode |-> mode,
                     registration_chat_id |-> chat, registration_message_id |-> id,
                     voters_message_id |-> NoId, discussion_message_id |-> NoId,
                     media_group_id |-> album])

\* a completion that inserts a row instead of updating the post's
UpdatePostRegistrationInsert(ps, m, chat, id) ==
    Append(ps, [msg |-> m, mode |-> DISCUSSION_THREAD,
                registration_chat_id |-> chat, registration_message_id |-> id,
                voters_message_id |-> NoId, discussion_message_id |-> NoId,
                media_group_id |-> AlbumOf(m)])

\* an UPDATE that sets registration_chat_id only
UpdatePostRegistrationChatOnly(ps, m, chat, id) ==
    [i \in DOMAIN ps |->
        IF ps[i].msg = m THEN [ps[i] EXCEPT !.registration_chat_id = chat] ELSE ps[i]]

\* update_post_registration: UPDATE posts SET registration_chat_id, registration_message_id
UpdatePostRegistration(ps, m, chat, id) ==
    [i \in DOMAIN ps |->
        IF ps[i].msg = m
            THEN [ps[i] EXCEPT !.registration_chat_id = chat,
                               !.registration_message_id = id]
            ELSE ps[i]]

\* update_voters_message: UPDATE posts SET voters_message_id
UpdateVotersMessage(ps, m, id) ==
    [i \in DOMAIN ps |->
        IF ps[i].msg = m THEN [ps[i] EXCEPT !.voters_message_id = id] ELSE ps[i]]

\* update_discussion_message_id: UPDATE posts SET discussion_message_id
UpdateDiscussionMessageId(ps, m, d) ==
    [i \in DOMAIN ps |->
        IF ps[i].msg = m THEN [ps[i] EXCEPT !.discussion_message_id = d] ELSE ps[i]]

----------------------------------------------------------------------------
(* RegistrationService: the fallback chain *)

all_modes == <<EDIT_CHANNEL, DISCUSSION_THREAD, CHANNEL_REPLY_POST>>

IndexOf(seq, x) == CHOOSE i \in DOMAIN seq : seq[i] = x

\* a chain that does not rotate: always all_modes
GetFallbackChainFixed(config_mode) == all_modes

\* _get_fallback_chain: all_modes[start_index:] + all_modes[:start_index]
GetFallbackChain(config_mode) ==
    LET start_index == IndexOf(all_modes, config_mode)
    IN  SubSeq(all_modes, start_index, Len(all_modes)) \o
        SubSeq(all_modes, 1, start_index - 1)

----------------------------------------------------------------------------
(* The engine's tasks *)

NoLoc == [chat |-> NoChat, id |-> NoId]

\* kind: "create" a direct create_registration call, "post" handle_channel_post,
\* "mapping" handle_discussion_message, "complete" a direct
\* complete_discussion_registration call
IdleCp == [kind |-> "none", pc |-> "idle", msg |-> 0, isfirst |-> FALSE,
           ctx |-> "none", idx |-> 0, attempts |-> <<>>, calls |-> 0,
           loc |-> NoLoc, reply_to |-> NoId, result |-> "none",
           inserted |-> FALSE, pre |-> FALSE, retry |-> FALSE]

\* no channel post of the album has arrived yet
NoFirst == [msg |-> 0, result |-> "none"]

InitEngineIdle ==
    /\ posts = <<>>
    /\ registration_mode = EDIT_CHANNEL
    /\ discussion_group_id = NoChat
    /\ ride_filter = "all"
    /\ cp = [p \in Procs |-> IdleCp]
    /\ processing = {}
    /\ cards = {}
    /\ nextId = 101
    /\ faults = 0
    /\ events = 0
    /\ mapped = {}
    /\ first = [a \in Albums |-> NoFirst]

\* the handlers idle, the configuration chosen, the store as given
InitEngineWith(ps, mp) ==
    /\ posts = ps
    /\ mapped = mp
    /\ cp = [p \in Procs |-> IdleCp]
    /\ processing = {}
    /\ cards = {}
    /\ nextId = 101
    /\ faults = 0
    /\ events = 0
    /\ first = [a \in Albums |-> NoFirst]
    /\ votes = {}
    /\ now = 0
    /\ vote_cooldown = 0
    /\ vp = [p \in VProcs |-> IdleVp]
    /\ lastResult = NoResult
    /\ casts = 0
    /\ ledger = NoLedger
    /\ payload = NoPayload
    /\ show_changed_mind_stats = TRUE
    /\ lastRender = NoRender
    /\ require_vote_to_see_voters = FALSE
    /\ lastVoters = NoVoters

\* the bot starts on an empty store, in any configuration
InitEngine ==
    /\ registration_mode \in Modes
    /\ discussion_group_id \in {NoChat, Group}
    /\ ride_filter = "all"
    /\ InitEngineWith(<<>>, {})

\* source post 3 as handle_channel_post leaves it in discussion_thread mode
\* (lines 64-73) once handle_discussion_message has stored the id of its copy
\* and the reply to the copy has failed
PendingMapped ==
    <<[msg |-> 3, mode |-> DISCUSSION_THREAD,
       registration_chat_id |-> NoChat, registration_message_id |-> NoId,
       voters_message_id |-> NoId, discussion_message_id |-> DiscussionIdOf(3),
       media_group_id |-> AlbumOf(3)]>>

\* the engine is called on an empty store, or on one that holds a pending Post
InitCreate ==
    \/ InitEngine
    \/ /\ registration_mode = DISCUSSION_THREAD
       /\ discussion_group_id = Group
       /\ ride_filter = "all"
       /\ InitEngineWith(PendingMapped, {3})

Free(p) == cp[p].pc \in {"idle", "done"}

\* a new task takes the first free slot
Slot(p) == Free(p) /\ \A q \in Procs : q < p => ~Free(q)

\* the await a mode's attempt starts with
ModePc(mode) ==
    IF mode = EDIT_CHANNEL THEN "try_edit"
    ELSE IF mode = DISCUSSION_THREAD THEN "try_disc"
    ELSE "try_reply"

\* the task ends with `result`; handle_channel_post discards its album marker
\* (lines 87-89), which happens with no await after the engine returned
Finished(rec, result) == [rec EXCEPT !.pc = "done", !.result = result]

\* a handler that leaves its album marker behind
MarkersAfterKeep(rec) == processing

\* _processing_media_groups.discard(media_group_id), lines 58, 89 and 95
MarkersAfter(rec) ==
    IF rec.kind = "post" /\ AlbumOf(rec.msg) # NoAlbum
        THEN processing \ {AlbumOf(rec.msg)}
        ELSE processing

\* the outcome of the album's first channel post is kept for the record
FirstAfter(rec, result) ==
    IF rec.isfirst
        THEN [first EXCEPT ![AlbumOf(rec.msg)] = [@ EXCEPT !.result = result]]
        ELSE first

Finish(p, rec, result) ==
    /\ cp' = [cp EXCEPT ![p] = Finished(rec, result)]
    /\ processing' = MarkersAfter(rec)
    /\ first' = FirstAfter(rec, result)

\* a new task for operation `kind` on source post m
NewTask(kind, m, pc) ==
    [IdleCp EXCEPT !.kind = kind, !.msg = m, !.pc = pc,
                   !.pre = \E i \in DOMAIN posts : posts[i].msg = m]

\* an earlier create_registration call for source post m returned False
FailedBefore(m) ==
    \E q \in Procs : /\ cp[q].kind = "create" /\ cp[q].msg = m
                     /\ cp[q].pc = "done" /\ cp[q].result = "failed"

\* a loop that gives up at the first mode that fails
AfterFailedModeStop(rec) == Finished(rec, "failed")

\* a loop that tries the failed mode again
AfterFailedModeRetry(rec) ==
    [rec EXCEPT !.pc = ModePc(GetFallbackChain(registration_mode)[rec.idx])]

\* the mode at position rec.idx of the chain has failed (or its store write
\* raised): `continue` with the next mode, or leave the loop and return False
AfterFailedMode(rec) ==
    IF rec.idx < Len(GetFallbackChain(registration_mode))
        THEN [rec EXCEPT !.idx = rec.idx + 1,
                         !.pc = ModePc(GetFallbackChain(registration_mode)[rec.idx + 1])]
        ELSE Finished(rec, "failed")

Attempted(rec, mode, ok) ==
    [rec EXCEPT !.attempts = Append(@, [mode |-> mode, ok |-> ok, stored |-> "none"])]

\* a mode attempt of create_registration ended with `ok`
AfterAttempt(p, rec, mode, ok) ==
    LET r == Attempted(rec, mode, ok)
        next == IF ok THEN [r EXCEPT !.pc = "persist"] ELSE AfterFailedMode(r)
    IN  /\ cp' = [cp EXCEPT ![p] = next]
        /\ processing' = IF next.pc = "done" THEN MarkersAfter(r) ELSE processing
        /\ first' = IF next.pc = "done" THEN FirstAfter(r, next.result) ELSE first

----------------------------------------------------------------------------
(* The clock *)

Tick ==
    /\ now < MaxTime
    /\ now' = now + 1
    /\ UNCHANGED <<votes, vote_cooldown, vp, lastResult, casts, ledger>>
    /\ UNCHANGED cardVars
    /\ UNCHANGED regVars

----------------------------------------------------------------------------
(* VoteService.cast_vote, run with no other task between its awaits *)

\* a cast_vote without its own "except RateLimitError: raise" clause
CastOutcomeWrapAll(limited, fault) ==
    IF fault = "read" \/ limited \/ fault = "upsert" THEN "VoteFailure" ELSE "Recorded"

\* the way cast_vote ends: an exception of the rate-limit read or of the upsert
\* becomes VoteError, RateLimitError passes through, else the vote is recorded
CastOutcome(limited, fault) ==
    IF fault = "read" THEN "VoteFailure"
    ELSE IF limited THEN "RateLimited"
    ELSE IF fault = "upsert" THEN "VoteFailure"
    ELSE "Recorded"

\* the store operations of cast_vote that can raise
StoreFaults == {"none", "read", "upsert"}

\* cast_vote(m, u, s) in which the store operation named by fault raises
CastVoteWith(u, m, s, fault) ==
    LET last == GetLastVoteTime(votes, m, u)
        existing == SelectVote(votes, m, u)
        limited == RateLimited(last, now, vote_cooldown)
        outcome == CastOutcome(limited, fault)
    IN  /\ casts < MaxCasts
        /\ fault = "read" => vote_cooldown > 0
        /\ fault = "upsert" => ~limited
        /\ casts' = casts + 1
        /\ lastResult' = [outcome |-> outcome,
                          remaining |-> IF outcome = "RateLimited"
                                           THEN vote_cooldown - (now - last) ELSE 0,
                          user |-> u, msg |-> m, fault |-> fault]
        /\ IF outcome = "Recorded"
              THEN /\ votes' = UpsertWrite(votes, existing, m, u, s, now)
                   /\ ledger' = LedgerAfter(ledger, m, u, s, now)
              ELSE /\ votes' = votes
                   /\ ledger' = ledger
        /\ UNCHANGED <<now, vote_cooldown, vp>>
        /\ UNCHANGED cardVars
        /\ UNCHANGED regVars

\* cast_vote on a store that answers
CastVote(u, m, s) == CastVoteWith(u, m, s, "none")

InitVote ==
    /\ votes = {}
    /\ now = 0
    /\ vote_cooldown \in 0..MaxCooldown
    /\ vp = [p \in VProcs |-> IdleVp]
    /\ lastResult = NoResult
    /\ casts = 0
    /\ ledger = NoLedger
    /\ payload = NoPayload
    /\ show_changed_mind_stats = TRUE
    /\ lastRender = NoRender
    /\ require_vote_to_see_voters = FALSE
    /\ lastVoters = NoVoters
    /\ InitEngineIdle

NextVote ==
    \/ Tick
    \/ \E u \in Users, m \in VoteMsgs, s \in Statuses : CastVote(u, m, s)

SpecVote == InitVote /\ [][NextVote]_vars

\* the same calls on a store whose operations may raise
NextVoteFault ==
    \/ Tick
    \/ \E u \in Users, m \in VoteMsgs, s \in Statuses, fault \in StoreFaults :
          CastVoteWith(u, m, s, fault)

SpecVoteFault == InitVote /\ [][NextVoteFault]_vars

----------------------------------------------------------------------------
(* handle_vote (callbacks.py): one task per button press, tasks interleave *)
(* at every await                                                          *)

\* the press arrives; with a cooldown the handler first awaits
\* get_last_vote_time, otherwise it goes straight to upsert_vote
VoteStart(p, u, m, s) ==
    /\ vp[p].pc = "idle"
    /\ casts < MaxCasts
    /\ casts' = casts + 1
    /\ vp' = [vp EXCEPT ![p] = [IdleVp EXCEPT !.pc = IF vote_cooldown > 0
                                                      THEN "ratecheck" ELSE "read",
                                             !.user = u, !.msg = m, !.status = s]]
    /\ UNCHANGED <<votes, now, vote_cooldown, lastResult, ledger>>
    /\ UNCHANGED cardVars
    /\ UNCHANGED regVars

\* await db.get_last_vote_time(...) and the comparison with the cooldown
VoteRateCheck(p) ==
    /\ vp[p].pc = "ratecheck"
    /\ LET last == GetLastVoteTime(votes, vp[p].msg, vp[p].user)
       IN  vp' = [vp EXCEPT ![p] =
                    IF RateLimited(last, now, vote_cooldown)
                        THEN [@ EXCEPT !.pc = "done", !.result = "RateLimited"]
                        ELSE [@ EXCEPT !.pc = "read"]]
    /\ UNCHANGED <<votes, now, vote_cooldown, lastResult, casts, ledger>>
    /\ UNCHANGED cardVars
    /\ UNCHANGED regVars

\* upsert_vote: the SELECT of the existing row
VoteUpsertRead(p) ==
    /\ vp[p].pc = "read"
    /\ vp' = [vp EXCEPT ![p] = [@ EXCEPT !.pc = "write",
                 !.existing = SelectVote(votes, vp[p].msg, vp[p].user)]]
    /\ UNCHANGED <<votes, now, vote_cooldown, lastResult, casts, ledger>>
    /\ UNCHANGED cardVars
    /\ UNCHANGED regVars

\* upsert_vote: the UPDATE or INSERT computed from the row read earlier
VoteUpsertWrite(p) ==
    /\ vp[p].pc = "write"
    /\ IF UpsertRaises(votes, vp[p].existing, vp[p].msg, vp[p].user)
          THEN /\ votes' = votes
               /\ ledger' = ledger
               /\ vp' = [vp EXCEPT ![p] = [@ EXCEPT !.pc = "done", !.result = "error"]]
          ELSE /\ votes' = UpsertWrite(votes, vp[p].existing, vp[p].msg,
                                       vp[p].user, vp[p].status, now)
               /\ ledger' = LedgerAfter(ledger, vp[p].msg, vp[p].user, vp[p].status, now)
               /\ vp' = [vp EXCEPT ![p] = [@ EXCEPT !.pc = "done", !.result = "Recorded"]]
    /\ UNCHANGED <<now, vote_cooldown, lastResult, casts>>
    /\ UNCHANGED cardVars
    /\ UNCHANGED regVars

\* the handler has answered the callback; the task ends
VoteFinish(p) ==
    /\ vp[p].pc = "done"
    /\ vp' = [vp EXCEPT ![p] = IdleVp]
    /\ UNCHANGED <<votes, now, vote_cooldown, lastResult, casts, ledger>>
    /\ UNCHANGED cardVars
    /\ UNCHANGED regVars

NextVoteConc ==
    \/ Tick
    \/ \E p \in VProcs, u \in Users, m \in VoteMsgs, s \in Statuses : VoteStart(p, u, m, s)
    \/ \E p \in VProcs : VoteRateCheck(p)
    \/ \E p \in VProcs : VoteUpsertRead(p)
    \/ \E p \in VProcs : VoteUpsertWrite(p)
    \/ \E p \in VProcs : VoteFinish(p)

SpecVoteConc == InitVote /\ [][NextVoteConc]_vars


----------------------------------------------------------------------------
(* RegistrationService.create_registration *)

\* a direct call create_registration(channel, m, media_group_id of m)
CreateStart(p, m) ==
    /\ Slot(p)
    /\ events < MaxEvents
    /\ cp' = [cp EXCEPT ![p] = [NewTask("create", m, "c_get") EXCEPT
                                   !.retry = FailedBefore(m)]]
    /\ events' = events + 1
    /\ UNCHANGED <<posts, registration_mode, ride_filter, discussion_group_id, processing,
                   cards, nextId, faults, mapped, first>>
    /\ UNCHANGED voteVars

\* lines 139-143: existing = await self.db.get_post(...); return False
CreateGetPost(p) ==
    /\ cp[p].pc = "c_get"
    /\ IF GetPost(posts, cp[p].msg) # NoRow
          THEN Finish(p, cp[p], "exists")
          ELSE /\ cp' = [cp EXCEPT ![p] = [@ EXCEPT !.pc = "c_album"]]
               /\ UNCHANGED <<processing, first>>
    /\ UNCHANGED <<posts, registration_mode, ride_filter, discussion_group_id, cards, nextId, faults, events, mapped>>
    /\ UNCHANGED voteVars

\* lines 145-156: the album check (only with a media_group_id), then the card
\* text (two reads of the votes table) and the chain; the loop starts
CreateAlbumCheck(p) ==
    /\ cp[p].pc = "c_album"
    /\ IF AlbumOf(cp[p].msg) # NoAlbum /\
          GetPostByMediaGroup(posts, AlbumOf(cp[p].msg)) # NoRow
          THEN Finish(p, cp[p], "exists")
          ELSE /\ cp' = [cp EXCEPT ![p] = [@ EXCEPT !.idx = 1,
                            !.ctx = "create",
                            !.pc = ModePc(GetFallbackChain(registration_mode)[1])]]
               /\ UNCHANGED <<processing, first>>
    /\ UNCHANGED <<posts, registration_mode, ride_filter, discussion_group_id, cards, nextId, faults, events, mapped>>
    /\ UNCHANGED voteVars

\* _try_edit_channel: one edit_message_text, accepted (ok) or rejected
TryEditChannel(p) ==
    /\ cp[p].pc = "try_edit"
    /\ \E ok \in BOOLEAN :
        LET rec == [cp[p] EXCEPT !.calls = @ + 1,
                        !.loc = IF ok THEN [chat |-> Channel, id |-> cp[p].msg] ELSE NoLoc]
        IN  /\ AfterAttempt(p, rec, EDIT_CHANNEL, ok)
            /\ cards' = IF ok THEN cards \cup {[src |-> cp[p].msg, chat |-> Channel,
                                               id |-> cp[p].msg, reply_to |-> NoId,
                                               link |-> FALSE]}
                              ELSE cards
    /\ UNCHANGED <<posts, registration_mode, ride_filter, discussion_group_id, nextId, faults, events, mapped>>
    /\ UNCHANGED voteVars

\* what follows a _try_discussion_thread result: in create_registration the
\* loop goes on, in complete_discussion_registration the update or the return
AfterDiscussion(p, rec, ok) ==
    IF rec.ctx = "create"
        THEN AfterAttempt(p, rec, DISCUSSION_THREAD, ok)
        ELSE IF ok
            THEN /\ cp' = [cp EXCEPT ![p] =
                             [Attempted(rec, DISCUSSION_THREAD, ok) EXCEPT !.pc = "update"]]
                 /\ UNCHANGED <<processing, first>>
            ELSE Finish(p, Attempted(rec, DISCUSSION_THREAD, ok), "failed")

\* _try_discussion_thread lines 238-250: no discussion group, or no
\* discussion_message_id on the post row: the mode fails without a gateway call
TryDiscussionRead(p) ==
    /\ cp[p].pc = "try_disc"
    /\ LET post == GetPost(posts, cp[p].msg)
           did == IF post # NoRow THEN post.discussion_message_id ELSE NoId
       IN  IF discussion_group_id = NoChat \/ did = NoId
              THEN AfterDiscussion(p, cp[p], FALSE)
              ELSE /\ cp' = [cp EXCEPT ![p] = [@ EXCEPT !.pc = "disc_send",
                                                       !.reply_to = did]]
                   /\ UNCHANGED <<processing, first>>
    /\ UNCHANGED <<posts, registration_mode, ride_filter, discussion_group_id, cards, nextId, faults, events, mapped>>
    /\ UNCHANGED voteVars

\* _try_discussion_thread lines 252-264: send_message as a reply to the copy
TryDiscussionSend(p) ==
    /\ cp[p].pc = "disc_send"
    /\ \E ok \in BOOLEAN :
        LET rec == [cp[p] EXCEPT !.calls = @ + 1,
                        !.loc = IF ok THEN [chat |-> discussion_group_id, id |-> nextId]
                                      ELSE NoLoc]
        IN  /\ AfterDiscussion(p, rec, ok)
            /\ cards' = IF ok THEN cards \cup {[src |-> cp[p].msg,
                                               chat |-> discussion_group_id,
                                               id |-> nextId,
                                               reply_to |-> cp[p].reply_to,
                                               link |-> FALSE]}
                              ELSE cards
            /\ nextId' = IF ok THEN nextId + 1 ELSE nextId
    /\ UNCHANGED <<posts, registration_mode, ride_filter, discussion_group_id, faults, events, mapped>>
    /\ UNCHANGED voteVars

\* _try_channel_reply lines 270-283: send_message replying to the source post
TryChannelReply(p) ==
    /\ cp[p].pc = "try_reply"
    /\ \E ok \in BOOLEAN :
        IF ok
          THEN /\ AfterAttempt(p, [cp[p] EXCEPT !.calls = @ + 1,
                                       !.loc = [chat |-> Channel, id |-> nextId]],
                               CHANNEL_REPLY_POST, TRUE)
               /\ cards' = cards \cup {[src |-> cp[p].msg, chat |-> Channel,
                                        id |-> nextId, reply_to |-> cp[p].msg,
                                        link |-> FALSE]}
               /\ nextId' = nextId + 1
          ELSE /\ cp' = [cp EXCEPT ![p] = [@ EXCEPT !.calls = @ + 1,
                                                   !.pc = "try_plain"]]
               /\ UNCHANGED <<processing, first, cards, nextId>>
    /\ UNCHANGED <<posts, registration_mode, ride_filter, discussion_group_id, faults, events, mapped>>
    /\ UNCHANGED voteVars

\* a second send that is the same reply again, without the link button
TryChannelPlainAsReply(p) ==
    /\ cp[p].pc = "try_plain"
    /\ \E ok \in BOOLEAN :
        LET rec == [cp[p] EXCEPT !.calls = @ + 1,
                        !.loc = IF ok THEN [chat |-> Channel, id |-> nextId] ELSE NoLoc]
        IN  /\ AfterAttempt(p, rec, CHANNEL_REPLY_POST, ok)
            /\ cards' = IF ok THEN cards \cup {[src |-> cp[p].msg, chat |-> Channel,
                                               id |-> nextId, reply_to |-> cp[p].msg,
                                               link |-> FALSE]}
                              ELSE cards
            /\ nextId' = IF ok THEN nextId + 1 ELSE nextId
    /\ UNCHANGED <<posts, registration_mode, ride_filter, discussion_group_id, faults, events, mapped>>
    /\ UNCHANGED voteVars

\* _try_channel_reply lines 284-307: the plain message with the link button
TryChannelPlain(p) ==
    /\ cp[p].pc = "try_plain"
    /\ \E ok \in BOOLEAN :
        LET rec == [cp[p] EXCEPT !.calls = @ + 1,
                        !.loc = IF ok THEN [chat |-> Channel, id |-> nextId] ELSE NoLoc]
        IN  /\ AfterAttempt(p, rec, CHANNEL_REPLY_POST, ok)
            /\ cards' = IF ok THEN cards \cup {[src |-> cp[p].msg, chat |-> Channel,
                                               id |-> nextId, reply_to |-> NoId,
                                               link |-> TRUE]}
                              ELSE cards
            /\ nextId' = IF ok THEN nextId + 1 ELSE nextId
    /\ UNCHANGED <<posts, registration_mode, ride_filter, discussion_group_id, faults, events, mapped>>
    /\ UNCHANGED voteVars

LastStored(rec, how) ==
    [rec EXCEPT !.attempts[Len(rec.attempts)] = [@ EXCEPT !.stored = how]]

\* lines 175-190: after create_post returns (True, or False for a rejected
\* insert) the call returns True; an exception raised by create_post is caught
\* by `except Exception` and the loop continues with the next mode
Persisted(rec, how) ==
    IF how = "raised"
        THEN AfterFailedMode(LastStored(rec, how))
        ELSE Finished(LastStored(rec, how), "created")

\* lines 175-186: await self.db.create_post(mode, reg_chat_id, reg_message_id, ...)
CreatePersist(p) ==
    /\ cp[p].pc = "persist"
    /\ \E raised \in BOOLEAN :
        LET rec == cp[p]
            mode == GetFallbackChain(registration_mode)[rec.idx]
            how == IF raised THEN "raised"
                   ELSE IF CreatePostRejected(posts, rec.msg) THEN "rejected"
                   ELSE "ok"
            next == Persisted([rec EXCEPT !.inserted = @ \/ how = "ok"], how)
        IN  /\ raised => faults < MaxFaults
            /\ faults' = IF raised THEN faults + 1 ELSE faults
            /\ posts' = IF raised THEN posts
                        ELSE CreatePost(posts, rec.msg, mode, rec.loc.chat, rec.loc.id,
                                        AlbumOf(rec.msg))
            /\ cp' = [cp EXCEPT ![p] = next]
            /\ processing' = IF next.pc = "done" THEN MarkersAfter(rec) ELSE processing
            /\ first' = IF next.pc = "done" THEN FirstAfter(rec, next.result) ELSE first
    /\ UNCHANGED <<registration_mode, ride_filter, discussion_group_id, cards, nextId, events, mapped>>
    /\ UNCHANGED voteVars

CreateSteps(p) ==
    \/ CreateGetPost(p)
    \/ CreateAlbumCheck(p)
    \/ TryEditChannel(p)
    \/ TryDiscussionRead(p)
    \/ TryDiscussionSend(p)
    \/ TryChannelReply(p)
    \/ TryChannelPlain(p)
    \/ CreatePersist(p)

----------------------------------------------------------------------------
(* complete_discussion_registration and handle_discussion_message *)

\* a direct call complete_discussion_registration(channel, m): the card text is
\* read (votes only), then _try_discussion_thread runs
CompleteStart(p, m) ==
    /\ Slot(p)
    /\ events < MaxEvents
    /\ cp' = [cp EXCEPT ![p] = [NewTask("complete", m, "try_disc") EXCEPT
                                   !.ctx = "complete"]]
    /\ events' = events + 1
    /\ UNCHANGED <<posts, registration_mode, ride_filter, discussion_group_id, processing,
                   cards, nextId, faults, mapped, first>>
    /\ UNCHANGED voteVars

\* lines 321-334: update_post_registration with the location of the reply; an
\* exception it raises is caught and the call returns False
CompleteUpdate(p) ==
    /\ cp[p].pc = "update"
    /\ \E raised \in BOOLEAN :
        /\ raised => faults < MaxFaults
        /\ faults' = IF raised THEN faults + 1 ELSE faults
        /\ posts' = IF raised THEN posts
                    ELSE UpdatePostRegistration(posts, cp[p].msg, cp[p].loc.chat,
                                                cp[p].loc.id)
        /\ Finish(p, LastStored(cp[p], IF raised THEN "raised" ELSE "ok"),
                  IF raised THEN "failed" ELSE "completed")
    /\ UNCHANGED <<registration_mode, ride_filter, discussion_group_id, cards, nextId, events, mapped>>
    /\ UNCHANGED voteVars

\* handle_discussion_message: the copy of source post m arrives in the group
MappingStart(p, m) ==
    /\ Slot(p)
    /\ events < MaxEvents
    /\ discussion_group_id # NoChat
    /\ cp' = [cp EXCEPT ![p] = NewTask("mapping", m, "m_store")]
    /\ events' = events + 1
    /\ mapped' = mapped \cup {m}
    /\ UNCHANGED <<posts, registration_mode, ride_filter, discussion_group_id, processing,
                   cards, nextId, faults, first>>
    /\ UNCHANGED voteVars

\* lines 38-43: await db.update_discussion_message_id(...)
MappingStore(p) ==
    /\ cp[p].pc = "m_store"
    /\ posts' = UpdateDiscussionMessageId(posts, cp[p].msg, DiscussionIdOf(cp[p].msg))
    /\ cp' = [cp EXCEPT ![p] = [@ EXCEPT !.pc = "m_get"]]
    /\ UNCHANGED <<registration_mode, ride_filter, discussion_group_id, processing, cards,
                   nextId, faults, events, mapped, first>>
    /\ UNCHANGED voteVars

\* a check that takes every stored Post for a pending one
IsPendingAny(post) == post # NoRow

\* the post is waiting for its card: mode discussion_thread, no registration_message_id
IsPending(post) ==
    /\ post # NoRow
    /\ post.mode = DISCUSSION_THREAD
    /\ post.registration_message_id = NoId

\* lines 45-60: get_post, and complete_discussion_registration for a pending post
MappingGetPost(p) ==
    /\ cp[p].pc = "m_get"
    /\ IF IsPending(GetPost(posts, cp[p].msg))
          THEN /\ cp' = [cp EXCEPT ![p] = [@ EXCEPT !.pc = "try_disc",
                                                   !.ctx = "complete"]]
               /\ UNCHANGED <<processing, first>>
          ELSE Finish(p, cp[p], "ignored")
    /\ UNCHANGED <<posts, registration_mode, ride_filter, discussion_group_id, cards, nextId, faults, events, mapped>>
    /\ UNCHANGED voteVars

MappingSteps(p) ==
    \/ MappingStore(p)
    \/ MappingGetPost(p)
    \/ CompleteUpdate(p)

----------------------------------------------------------------------------
(* handle_channel_post (channel_watcher.py) *)

\* a handler without the discussion_thread branch
AfterAlbumCreate == "c_get"

\* where the handler goes once the album checks are passed (lines 64-80)
AfterAlbum ==
    IF registration_mode = DISCUSSION_THREAD THEN "h_pending" ELSE "c_get"

\* lines 34-50: a post of the channel arrives (it passed the message filter);
\* an album whose marker is set is skipped, otherwise the marker is set
PostStart(p, m) ==
    /\ Slot(p)
    /\ events < MaxEvents
    /\ events' = events + 1
    /\ LET a == AlbumOf(m)
           isfirst == a # NoAlbum /\ first[a] = NoFirst
           skipped == a # NoAlbum /\ a \in processing
           task == [NewTask("post", m, IF a # NoAlbum THEN "h_album" ELSE AfterAlbum)
                       EXCEPT !.isfirst = isfirst]
       IN  /\ cp' = [cp EXCEPT ![p] = IF skipped THEN Finished(task, "skipped")
                                                 ELSE task]
           /\ processing' = IF a # NoAlbum THEN processing \cup {a} ELSE processing
           /\ first' = IF isfirst
                           THEN [first EXCEPT ![a] = [msg |-> m, result |-> "running"]]
                           ELSE first
    /\ UNCHANGED <<posts, registration_mode, ride_filter, discussion_group_id, cards, nextId,
                   faults, mapped>>
    /\ UNCHANGED voteVars

\* lines 52-59: existing = await db.get_post_by_media_group(...)
HandlerAlbumCheck(p) ==
    /\ cp[p].pc = "h_album"
    /\ IF GetPostByMediaGroup(posts, AlbumOf(cp[p].msg)) # NoRow
          THEN Finish(p, cp[p], "exists")
          ELSE /\ cp' = [cp EXCEPT ![p] = [@ EXCEPT !.pc = AfterAlbum]]
               /\ UNCHANGED <<processing, first>>
    /\ UNCHANGED <<posts, registration_mode, ride_filter, discussion_group_id, cards, nextId, faults, events, mapped>>
    /\ UNCHANGED voteVars

\* lines 64-73: the pending post of discussion_thread mode, with no card
\* location; an exception raised by create_post goes to the handler's
\* `except Exception` (lines 91-95), which discards the album marker
HandlerPending(p) ==
    /\ cp[p].pc = "h_pending"
    /\ \E raised \in BOOLEAN :
        /\ raised => faults < MaxFaults
        /\ faults' = IF raised THEN faults + 1 ELSE faults
        /\ posts' = IF raised THEN posts
                    ELSE CreatePost(posts, cp[p].msg, DISCUSSION_THREAD, NoChat, NoId,
                                    AlbumOf(cp[p].msg))
        /\ Finish(p, [cp[p] EXCEPT !.inserted =
                                     ~raised /\ ~CreatePostRejected(posts, cp[p].msg)],
                  IF raised THEN "error" ELSE "pending")
    /\ UNCHANGED <<registration_mode, ride_filter, discussion_group_id, cards, nextId, events, mapped>>
    /\ UNCHANGED voteVars

----------------------------------------------------------------------------
(* MessageFilter.should_process (message_filter.py) *)

\* message.from_user of a delivered channel post: absent (posts of a channel
\* carry no sender), a human, or a bot
FromUsers == {"none", "user", "bot"}

RideFilters == {"all", "hashtag"}

\* lines 35-50: a message is skipped when it carries a sender that is a bot;
\* otherwise "all" accepts it and "hashtag" accepts it when its text holds one
\* of the configured hashtags (`tagged`)
ShouldProcess(filter, from_user, tagged) ==
    IF from_user = "bot" THEN FALSE
    ELSE IF filter = "all" THEN TRUE
    ELSE IF filter = "hashtag" THEN tagged
    ELSE FALSE

\* the cards the engine sent to the channel as messages of their own
SentToChannel == {c \in cards : c.chat = Channel /\ c.id \notin Msgs}

\* handle_channel_post lines 34-50 for a card the engine sent to the channel,
\* delivered back as a channel post; the card text (registration title and
\* count labels) holds no hashtag, and the card is no part of an album
CardDelivered(p, c, from_user) ==
    /\ Slot(p)
    /\ c \in SentToChannel
    /\ events < MaxEvents
    /\ events' = events + 1
    /\ cp' = [cp EXCEPT ![p] =
                 IF ShouldProcess(ride_filter, from_user, FALSE)
                     THEN NewTask("post", c.id, AfterAlbum)
                     ELSE Finished(NewTask("post", c.id, AfterAlbum), "filtered")]
    /\ UNCHANGED <<posts, registration_mode, ride_filter, discussion_group_id,
                   processing, cards, nextId, faults, mapped, first>>
    /\ UNCHANGED voteVars

----------------------------------------------------------------------------
(* RegistrationService.update_registration, run with no other task between *)
(* its awaits (handle_refresh, or handle_vote after its upsert)            *)

\* the Post has no card location: `not post["registration_chat_id"] or not
\* post["registration_message_id"]`
MissingLocation(post) ==
    post.registration_chat_id = NoChat \/ post.registration_message_id = NoId

\* a repair that takes the source post for the card in every mode
CanRepairAny(post) == TRUE

\* a repair that gives up in every mode
CanRepairNone(post) == FALSE

\* _repair_post_registration: only edit_channel can be repaired, to the
\* location of the source post itself
CanRepair(post) == post.mode = EDIT_CHANNEL

\* how update_registration goes on a Post as get_post returned it: "not_found"
\* (line 375), "missing_location" (repair refused or raised, line 389), else
\* the one edit_message_text is sent
RenderPath(post, raised) ==
    IF post = NoRow THEN "not_found"
    ELSE IF MissingLocation(post) /\ (~CanRepair(post) \/ raised) THEN "missing_location"
    ELSE "edit"

\* an update_registration that returns True also when the edit was rejected
RenderResultSwallow(path, ok) == IF path # "edit" THEN path ELSE "ok"

\* what update_registration returns: False without an edit ("not_found",
\* "missing_location"), True after the edit ("ok"), False when the gateway
\* raised TelegramAPIError ("rejected")
RenderResult(path, ok) ==
    IF path # "edit" THEN path ELSE IF ok THEN "ok" ELSE "rejected"

\* update_registration(channel, m): get_post, the repair of a missing location,
\* the card text and one edit_message_text, accepted (ok) or rejected
UpdateRegistration(m) ==
    LET post == GetPost(posts, m)
        repaired == UpdatePostRegistration(posts, m, Channel, m)
    IN  \E ok \in BOOLEAN, raised \in BOOLEAN :
        LET path == RenderPath(post, raised)
            sent == path = "edit" /\ ok
        IN
          /\ payload.sent < MaxSent
          /\ raised => (/\ faults < MaxFaults
                        /\ post # NoRow /\ MissingLocation(post) /\ CanRepair(post))
          /\ faults' = IF raised THEN faults + 1 ELSE faults
          /\ posts' = IF path = "edit" /\ MissingLocation(post) THEN repaired ELSE posts
          /\ LET now_post == GetPost(posts', m)
             IN  payload' =
                    IF sent
                        THEN [src |-> m, chat |-> now_post.registration_chat_id,
                              id |-> now_post.registration_message_id,
                              text |-> RegistrationText(votes, m, show_changed_mind_stats),
                              sent |-> payload.sent + 1]
                        ELSE payload
          /\ lastRender' = [msg |-> m,
                            result |-> RenderResult(path, ok),
                            edits |-> IF path = "edit" THEN 1 ELSE 0,
                            at |-> IF path = "edit"
                                      THEN [chat |-> GetPost(posts', m).registration_chat_id,
                                            id |-> GetPost(posts', m).registration_message_id]
                                      ELSE NoRender.at,
                            accepted |-> sent]
          /\ UNCHANGED <<votes, now, vote_cooldown, vp, lastResult, casts, ledger,
                         show_changed_mind_stats, require_vote_to_see_voters,
                         lastVoters>>
          /\ UNCHANGED <<registration_mode, ride_filter, discussion_group_id, cp, processing, cards,
                         nextId, events, mapped, first>>

\* source post 1 with its card placed by edit_channel
CardPost ==
    [msg |-> 1, mode |-> EDIT_CHANNEL,
     registration_chat_id |-> Channel, registration_message_id |-> 1,
     voters_message_id |-> NoId, discussion_message_id |-> NoId,
     media_group_id |-> AlbumOf(1)]

\* votes are cast and cards refreshed on a store that holds the Post of source
\* post 1; source post 2 has no Post
InitRender ==
    /\ votes = {}
    /\ now = 0
    /\ vote_cooldown = 0
    /\ vp = [p \in VProcs |-> IdleVp]
    /\ lastResult = NoResult
    /\ casts = 0
    /\ ledger = NoLedger
    /\ payload = NoPayload
    /\ show_changed_mind_stats \in BOOLEAN
    /\ lastRender = NoRender
    /\ require_vote_to_see_voters = FALSE
    /\ lastVoters = NoVoters
    /\ posts = <<CardPost>>
    /\ registration_mode = EDIT_CHANNEL
    /\ discussion_group_id = NoChat
    /\ ride_filter = "all"
    /\ cp = [p \in Procs |-> IdleCp]
    /\ processing = {}
    /\ cards = {[src |-> 1, chat |-> Channel, id |-> 1, reply_to |-> NoId,
                 link |-> FALSE]}
    /\ nextId = 101
    /\ faults = 0
    /\ events = 0
    /\ mapped = {}
    /\ first = [a \in Albums |-> NoFirst]

NextRender ==
    \/ \E u \in Users, m \in VoteMsgs, s \in Statuses : CastVote(u, m, s)
    \/ \E m \in VoteMsgs : UpdateRegistration(m)

SpecRender == InitRender /\ [][NextRender]_vars

\* a Post of source post 1 as the posts table permits it and as
\* _repair_post_registration expects to find it: its mode set, its card
\* location NULL
UnplacedPost(mode) ==
    [msg |-> 1, mode |-> mode,
     registration_chat_id |-> NoChat, registration_message_id |-> NoId,
     voters_message_id |-> NoId, discussion_message_id |-> NoId,
     media_group_id |-> AlbumOf(1)]

\* the bot starts in any configuration on a store that is empty or holds one
\* Post without a card location
InitRepair ==
    /\ registration_mode \in Modes
    /\ discussion_group_id \in {NoChat, Group}
    /\ ride_filter = "all"
    /\ \E ps \in {<<>>} \cup {<<UnplacedPost(mode)>> : mode \in Modes} :
          InitEngineWith(ps, {})

\* the handlers of the channel and of the discussion group for source post 1
\* and the refresh of its card, in any interleaving
NextRepair ==
    \/ \E p \in Procs : PostStart(p, 1)
    \/ \E p \in Procs : MappingStart(p, 1)
    \/ \E p \in Procs : HandlerAlbumCheck(p)
    \/ \E p \in Procs : HandlerPending(p)
    \/ \E p \in Procs : CreateSteps(p)
    \/ \E p \in Procs : MappingSteps(p)
    \/ UpdateRegistration(1)

SpecRepair == InitRepair /\ [][NextRepair]_vars

----------------------------------------------------------------------------
(* handle_voters, run with no other task between its awaits *)

\* class Database defines no method get_vote: the attribute lookup
\* db.get_vote in handle_voters raises AttributeError
DatabaseHasGetVote == FALSE

\* how the participation check of handle_voters ends for user u on post m:
\* "error" (the lookup of db.get_vote raised and the handler's except Exception
\* answered), "refused" (no vote) or "pass"
VoteRequiredCheck(vs, m, u, require) ==
    IF ~require THEN "pass"
    ELSE IF ~DatabaseHasGetVote THEN "error"
    ELSE IF SelectVote(vs, m, u) = NoRow THEN "refused"
    ELSE "pass"

\* handle_voters(u, m): the participation check, the lists of voters, the
\* checks for the discussion group and the thread, one send_message (accepted
\* or not) and the store of the new voters message id
HandleVoters(u, m) ==
    LET check == VoteRequiredCheck(votes, m, u, require_vote_to_see_voters)
        post == GetPost(posts, m)
    IN  \E ok \in BOOLEAN :
        \E qj \in GetVotersByStatus(votes, m, "join"),
           qm \in GetVotersByStatus(votes, m, "maybe"),
           qd \in GetVotersByStatus(votes, m, "decline") :
        LET result ==
                IF check # "pass" THEN check
                ELSE IF discussion_group_id = NoChat THEN "no_group"
                ELSE IF post = NoRow \/ post.discussion_message_id = NoId THEN "no_thread"
                ELSE IF ok THEN "sent" ELSE "send_failed"
            list == IF check = "pass"
                       THEN [s \in Statuses |->
                               IF s = "join" THEN qj ELSE IF s = "maybe" THEN qm ELSE qd]
                       ELSE NoVoters.list
        IN  /\ lastVoters.requests < MaxRequests
            /\ lastVoters' = [user |-> u, msg |-> m, result |-> result,
                              sent |-> IF result = "sent" THEN nextId ELSE NoId,
                              list |-> list, requests |-> lastVoters.requests + 1]
            /\ nextId' = IF result = "sent" THEN nextId + 1 ELSE nextId
            /\ posts' = IF result = "sent" THEN UpdateVotersMessage(posts, m, nextId)
                        ELSE posts
            /\ UNCHANGED <<votes, now, vote_cooldown, vp, lastResult, casts, ledger,
                           payload, show_changed_mind_stats, lastRender,
                           require_vote_to_see_voters>>
            /\ UNCHANGED <<registration_mode, ride_filter, discussion_group_id, cp, processing, cards,
                           faults, events, mapped, first>>

\* source post 1 with its card placed by edit_channel and the id of its copy in
\* the discussion group stored
ThreadPost == [CardPost EXCEPT !.discussion_message_id = DiscussionIdOf(1)]

\* votes are cast and voters lists requested, with or without the
\* participation requirement
InitVoters ==
    /\ votes = {}
    /\ now = 0
    /\ vote_cooldown = 0
    /\ vp = [p \in VProcs |-> IdleVp]
    /\ lastResult = NoResult
    /\ casts = 0
    /\ ledger = NoLedger
    /\ payload = NoPayload
    /\ show_changed_mind_stats = TRUE
    /\ lastRender = NoRender
    /\ require_vote_to_see_voters \in BOOLEAN
    /\ lastVoters = NoVoters
    /\ posts = <<ThreadPost>>
    /\ registration_mode = EDIT_CHANNEL
    /\ discussion_group_id = Group
    /\ ride_filter = "all"
    /\ cp = [p \in Procs |-> IdleCp]
    /\ processing = {}
    /\ cards = {[src |-> 1, chat |-> Channel, id |-> 1, reply_to |-> NoId,
                 link |-> FALSE]}
    /\ nextId = 101
    /\ faults = 0
    /\ events = 0
    /\ mapped = {1}
    /\ first = [a \in Albums |-> NoFirst]

NextVoters ==
    \/ \E u \in Users, m \in VoteMsgs, s \in Statuses : CastVote(u, m, s)
    \/ \E u \in Users, m \in VoteMsgs : HandleVoters(u, m)

SpecVoters == InitVoters /\ [][NextVoters]_vars

----------------------------------------------------------------------------
(* handle_vote's card refresh (callbacks.py line 64) and                   *)
(* VoteRepository.get_counts, with other tasks between their awaits        *)

\* a handler that refreshes the card whatever came of the vote
RendersAfterAny(rec) == rec.pc = "done"

\* handle_vote reaches update_registration (line 64) only when upsert_vote has
\* returned: a rate-limited press returned at line 58, an exception of the
\* upsert went to the except clause
RendersAfter(rec) == rec.pc = "done" /\ rec.result = "Recorded"

\* update_registration lines 373-392 in handle_vote: get_post, the early
\* returns and the repair
PressGetPost(p) ==
    /\ vp[p].kind = "press"
    /\ RendersAfter(vp[p])
    /\ LET m == vp[p].msg
           post == GetPost(posts, m)
           path == RenderPath(post, FALSE)
       IN  /\ posts' = IF path = "edit" /\ MissingLocation(post)
                          THEN UpdatePostRegistration(posts, m, Channel, m)
                          ELSE posts
           /\ IF path = "edit"
                 THEN /\ vp' = [vp EXCEPT ![p] = [@ EXCEPT !.pc = "r_counts",
                                 !.at = [chat |-> GetPost(posts', m).registration_chat_id,
                                         id |-> GetPost(posts', m).registration_message_id]]]
                      /\ lastRender' = lastRender
                 ELSE /\ vp' = [vp EXCEPT ![p] = [@ EXCEPT !.pc = "answered",
                                                          !.render = path]]
                      /\ lastRender' = [NoRender EXCEPT !.msg = m, !.result = path]
    /\ UNCHANGED <<votes, now, vote_cooldown, lastResult, casts, ledger, payload,
                   show_changed_mind_stats, require_vote_to_see_voters, lastVoters>>
    /\ UNCHANGED <<registration_mode, ride_filter, discussion_group_id, cp, processing, cards,
                   nextId, faults, events, mapped, first>>

\* counts = await self.db.get_vote_counts(...): the first read of
\* _create_registration_text and of VoteRepository.get_counts
ReadVoteCounts(p) ==
    /\ vp[p].pc = "r_counts"
    /\ vp' = [vp EXCEPT ![p] = [@ EXCEPT !.pc = "r_changed",
                                        !.counts = GetVoteCounts(votes, vp[p].msg)]]
    /\ UNCHANGED <<votes, now, vote_cooldown, lastResult, casts, ledger>>
    /\ UNCHANGED cardVars
    /\ UNCHANGED regVars

\* changed_mind = await self.db.get_changed_mind_count(...): the second read;
\* get_counts then returns the VoteCounts, the refresh goes on to its edit
ReadChangedMind(p) ==
    /\ vp[p].pc = "r_changed"
    /\ vp' = [vp EXCEPT ![p] = [@ EXCEPT
                 !.pc = IF vp[p].kind = "counts" THEN "returned" ELSE "r_edit",
                 !.changed_mind = GetChangedMindCount(votes, vp[p].msg)]]
    /\ UNCHANGED <<votes, now, vote_cooldown, lastResult, casts, ledger>>
    /\ UNCHANGED cardVars
    /\ UNCHANGED regVars

\* update_registration lines 394-407: the text of the values read and the one
\* edit_message_text, accepted (ok) or rejected; then the callback is answered
PressEdit(p) ==
    /\ vp[p].pc = "r_edit"
    /\ \E ok \in BOOLEAN :
        /\ payload' = IF ok
                         THEN [src |-> vp[p].msg, chat |-> vp[p].at.chat,
                               id |-> vp[p].at.id,
                               text |-> CardText(vp[p].counts, vp[p].changed_mind,
                                                 show_changed_mind_stats),
                               sent |-> payload.sent + 1]
                         ELSE payload
        /\ lastRender' = [msg |-> vp[p].msg, result |-> RenderResult("edit", ok),
                          edits |-> 1, at |-> vp[p].at, accepted |-> ok]
        /\ vp' = [vp EXCEPT ![p] = [@ EXCEPT !.pc = "answered",
                                            !.render = RenderResult("edit", ok)]]
    /\ UNCHANGED <<votes, now, vote_cooldown, lastResult, casts, ledger,
                   show_changed_mind_stats, require_vote_to_see_voters, lastVoters>>
    /\ UNCHANGED regVars

PressSteps(p) ==
    \/ VoteUpsertRead(p)
    \/ VoteUpsertWrite(p)
    \/ PressGetPost(p)
    \/ ReadVoteCounts(p)
    \/ ReadChangedMind(p)
    \/ PressEdit(p)

\* button presses on the card of source post 1 (and on a post without Post),
\* no cooldown, the handlers interleaved at every await
NextPress ==
    \/ \E p \in VProcs, u \in Users, m \in VoteMsgs, s \in Statuses : VoteStart(p, u, m, s)
    \/ \E p \in VProcs : PressSteps(p)

SpecPress == InitRender /\ [][NextPress]_vars

\* no handler is between two of its awaits
Quiet ==
    \A q \in VProcs :
        \/ vp[q].pc \in {"idle", "answered", "returned"}
        \/ vp[q].pc = "done" /\ ~RendersAfter(vp[q])

\* a button press that arrives when no other handler is running
VoteStartAlone(p, u, m, s) == Quiet /\ VoteStart(p, u, m, s)

\* a cast_vote call made when no handler is running
CastVoteAlone(u, m, s) == Quiet /\ CastVote(u, m, s)

\* the clock moves between two calls (cast_vote is modelled with one reading
\* of the clock, and so is the handler it is compared with)
TickAlone == Quiet /\ Tick

\* the Post of source post 1 stored, any cooldown
InitPressSeq ==
    /\ vote_cooldown \in 0..MaxCooldown
    /\ votes = {}
    /\ now = 0
    /\ vp = [p \in VProcs |-> IdleVp]
    /\ lastResult = NoResult
    /\ casts = 0
    /\ ledger = NoLedger
    /\ payload = NoPayload
    /\ show_changed_mind_stats = TRUE
    /\ lastRender = NoRender
    /\ require_vote_to_see_voters = FALSE
    /\ lastVoters = NoVoters
    /\ posts = <<CardPost>>
    /\ registration_mode = EDIT_CHANNEL
    /\ discussion_group_id = NoChat
    /\ ride_filter = "all"
    /\ cp = [p \in Procs |-> IdleCp]
    /\ processing = {}
    /\ cards = {[src |-> 1, chat |-> Channel, id |-> 1, reply_to |-> NoId,
                 link |-> FALSE]}
    /\ nextId = 101
    /\ faults = 0
    /\ events = 0
    /\ mapped = {}
    /\ first = [a \in Albums |-> NoFirst]

\* handle_vote returns: after the answer of line 69, of line 54-58 (rate
\* limited) or of the except clause
PressReturn(p) ==
    /\ vp[p].kind = "press"
    /\ \/ vp[p].pc = "answered"
       \/ vp[p].pc = "done" /\ ~RendersAfter(vp[p])
    /\ vp' = [vp EXCEPT ![p] = IdleVp]
    /\ UNCHANGED <<votes, now, vote_cooldown, lastResult, casts, ledger>>
    /\ UNCHANGED cardVars
    /\ UNCHANGED regVars

\* button presses of user 1 on the card of source post 1 and cast_vote calls
\* of any user for that post on one store, one after another
NextPressSeq ==
    \/ TickAlone
    \/ \E u \in Users, s \in Statuses : CastVoteAlone(u, 1, s)
    \/ \E s \in Statuses : VoteStartAlone(1, 1, 1, s)
    \/ \E p \in VProcs : VoteRateCheck(p)
    \/ \E p \in VProcs : PressSteps(p)
    \/ \E p \in VProcs : PressReturn(p)

SpecPressSeq == InitPressSeq /\ [][NextPressSeq]_vars

\* VoteRepository.get_counts(channel, m) is called
CountsStart(p, m) ==
    /\ vp[p].pc \in {"idle", "returned"}
    /\ vp' = [vp EXCEPT ![p] = [IdleVp EXCEPT !.kind = "counts", !.pc = "r_counts",
                                             !.msg = m]]
    /\ UNCHANGED <<votes, now, vote_cooldown, lastResult, casts, ledger>>
    /\ UNCHANGED cardVars
    /\ UNCHANGED regVars

\* no cooldown, so that every cast is recorded
InitCounts == InitVote /\ vote_cooldown = 0

\* get_counts calls, one at a time, with cast_vote calls between their two reads
NextCounts ==
    \/ \E u \in Users, m \in VoteMsgs, s \in Statuses : CastVote(u, m, s)
    \/ \E m \in VoteMsgs : CountsStart(1, m)
    \/ \E p \in VProcs : ReadVoteCounts(p)
    \/ \E p \in VProcs : ReadChangedMind(p)

SpecCounts == InitCounts /\ [][NextCounts]_vars

----------------------------------------------------------------------------
(* main (bot.py): the routers the dispatcher is given *)

\* lines 118-125: the routers main sets up and includes
IncludedRouters == {"channel_watcher", "callbacks", "admin"}

\* the router whose handler is registered for an update of the kind
RouterOf(kind) ==
    IF kind = "channel_post" THEN "channel_watcher"
    ELSE IF kind = "callback_query" THEN "callbacks"
    ELSE IF kind = "command" THEN "admin"
    ELSE "discussion_watcher"

\* the dispatcher runs a handler only if its router was included
Routed(kind) == RouterOf(kind) \in IncludedRouters

\* the copy of source post m arrives in the discussion group: the dispatcher
\* hands it to handle_discussion_message if that handler is registered, and
\* drops the update otherwise
DiscussionMessage(p, m) ==
    IF Routed("discussion_message")
        THEN MappingStart(p, m)
        ELSE /\ Slot(p)
             /\ events < MaxEvents
             /\ discussion_group_id # NoChat
             /\ cp' = [cp EXCEPT ![p] =
                          [NewTask("mapping", m, "m_store") EXCEPT
                               !.pc = "done", !.result = "unrouted"]]
             /\ events' = events + 1
             /\ mapped' = mapped \cup {m}
             /\ UNCHANGED <<posts, registration_mode, ride_filter, discussion_group_id,
                            processing, cards, nextId, faults, first>>
             /\ UNCHANGED voteVars

\* a channel post goes to handle_channel_post, whose router is included
ChannelPost(p, m) == Routed("channel_post") /\ PostStart(p, m)

\* the awaits of a running handle_channel_post, each resumed by the event loop
BotSteps(p) ==
    \/ HandlerAlbumCheck(p)
    \/ HandlerPending(p)
    \/ CreateGetPost(p)
    \/ CreateAlbumCheck(p)
    \/ TryEditChannel(p)
    \/ TryDiscussionRead(p)
    \/ TryChannelReply(p)
    \/ TryChannelPlain(p)
    \/ CreatePersist(p)

NextBot ==
    \/ \E p \in Procs, m \in Msgs : ChannelPost(p, m)
    \/ \E p \in Procs, m \in Msgs : DiscussionMessage(p, m)
    \/ \E p \in Procs : BotSteps(p)

\* the assembled bot on an empty store; the event loop runs every handler it
\* started to its end
SpecBot ==
    /\ InitEngine
    /\ [][NextBot]_vars
    /\ WF_vars(\E p \in Procs : BotSteps(p))

----------------------------------------------------------------------------
(* The specifications *)

\* the engine's operations called directly, in any interleaving
NextCreate ==
    \/ \E p \in Procs, m \in Msgs : CreateStart(p, m)
    \/ \E p \in Procs, m \in Msgs : CompleteStart(p, m)
    \/ \E p \in Procs, m \in Msgs : MappingStart(p, m)
    \/ \E p \in Procs : CreateSteps(p)
    \/ \E p \in Procs : MappingSteps(p)

SpecCreate == InitCreate /\ [][NextCreate]_vars

\* the handlers of the channel and of the discussion group, in any interleaving
Next ==
    \/ \E p \in Procs, m \in Msgs : PostStart(p, m)
    \/ \E p \in Procs, m \in Msgs : MappingStart(p, m)
    \/ \E p \in Procs : HandlerAlbumCheck(p)
    \/ \E p \in Procs : HandlerPending(p)
    \/ \E p \in Procs : CreateSteps(p)
    \/ \E p \in Procs : MappingSteps(p)

Spec == InitEngine /\ [][Next]_vars

\* the channel handler, which also receives the cards the engine itself posted
InitEcho ==
    /\ registration_mode \in Modes
    /\ discussion_group_id \in {NoChat, Group}
    /\ ride_filter \in RideFilters
    /\ InitEngineWith(<<>>, {})

NextEcho ==
    \/ \E p \in Procs, m \in Msgs : PostStart(p, m)
    \/ \E p \in Procs, m \in Msgs : MappingStart(p, m)
    \/ \E p \in Procs, c \in SentToChannel, f \in {"none", "bot"} :
           CardDelivered(p, c, f)
    \/ \E p \in Procs : HandlerAlbumCheck(p)
    \/ \E p \in Procs : HandlerPending(p)
    \/ \E p \in Procs : CreateSteps(p)
    \/ \E p \in Procs : MappingSteps(p)

SpecEcho == InitEcho /\ [][NextEcho]_vars

----------------------------------------------------------------------------
(* Vocabulary of the properties *)

\* the number of Posts of source post m
PostsOf(m) == Cardinality({i \in DOMAIN posts : posts[i].msg = m})

\* the Posts of album a
AlbumRows(a) == {i \in DOMAIN posts : posts[i].media_group_id = a}

\* the call placed a card: one of its mode attempts succeeded
Placed(rec) == \E i \in DOMAIN rec.attempts : rec.attempts[i].ok

\* every mode the call attempted failed
AllFailed(rec) == \A i \in DOMAIN rec.attempts : ~rec.attempts[i].ok

\* the modes a call attempted, in order, and what came of each attempt
ModesOf(rec) == [i \in DOMAIN rec.attempts |-> rec.attempts[i].mode]
Outcomes(rec) == [i \in DOMAIN rec.attempts |->
                    <<rec.attempts[i].ok, rec.attempts[i].stored>>]

\* the mode a finished call chose, or "none"
Winner(rec) ==
    IF rec.result = "created" THEN rec.attempts[Len(rec.attempts)].mode ELSE "none"

\* the cycle edit_channel -> discussion_thread -> channel_reply_post -> edit_channel
NextInCycle(mode) ==
    IF mode = EDIT_CHANNEL THEN DISCUSSION_THREAD
    ELSE IF mode = DISCUSSION_THREAD THEN CHANNEL_REPLY_POST
    ELSE EDIT_CHANNEL

\* [preferred, next, next]
CycleFrom(mode) == <<mode, NextInCycle(mode), NextInCycle(NextInCycle(mode))>>

\* a handle_discussion_message task for source post m has not yet run its
\* update_discussion_message_id
MappingInProgress(m) ==
    \E p \in Procs : cp[p].kind = "mapping" /\ cp[p].msg = m /\ cp[p].pc = "m_store"

\* the Post of source post m is stored with mode discussion_thread and no card
PendingRow(m) ==
    \E i \in DOMAIN posts : /\ posts[i].msg = m
                            /\ posts[i].mode = DISCUSSION_THREAD
                            /\ posts[i].registration_message_id = NoId

----------------------------------------------------------------------------
(* C1: over any sequence of cast_vote calls applied one at a time, a       *)
(* stored Vote whose ever_joined is set keeps it set: no step takes         *)
(* ever_joined of a (post, user) row from true to false.                   *)
C1_EverJoinedMonotonic ==
    [][\A r \in votes : r.ever_joined = 1 =>
          \E r2 \in votes' : r2.msg = r.msg /\ r2.user = r.user /\ r2.ever_joined = 1]_vars

\* a user who joined and then cast another status still has ever_joined set
C1_Witness ==
    \E r \in votes : r.first_status = "join" /\ r.status = "decline" /\ r.ever_joined = 1

(* C2: the same monotonicity when two handle_vote tasks of one user on one *)
(* post interleave between upsert_vote's SELECT and its UPDATE.            *)
C2_EverJoinedMonotonicConcurrent ==
    [][\A r \in votes : r.ever_joined = 1 =>
          \E r2 \in votes' : r2.msg = r.msg /\ r2.user = r.user /\ r2.ever_joined = 1]_<<votes>>

(* C3: a create_registration call that starts when the Post of its key is  *)
(* already stored returns "already exists", makes no gateway call and no   *)
(* store write, and the key has exactly one Post.                          *)
C3_SecondCreateAlreadyExists ==
    \A p \in Procs :
        (cp[p].kind = "create" /\ cp[p].pre) =>
            /\ cp[p].calls = 0
            /\ cp[p].attempts = <<>>
            /\ ~cp[p].inserted
            /\ cp[p].pc = "done" => cp[p].result = "exists"
            /\ PostsOf(cp[p].msg) = 1

\* a second call that found the Post stored by an earlier, finished call
C3_Witness ==
    \E p \in Procs :
        /\ cp[p].kind = "create" /\ cp[p].pre
        /\ cp[p].pc = "done" /\ cp[p].result = "exists"
        /\ GetPost(posts, cp[p].msg) # NoRow
        /\ GetPost(posts, cp[p].msg).registration_message_id # NoId

(* C4: of two create_registration calls for one key that overlap, with no  *)
(* store error, the two do not place two cards, at most one returns True   *)
(* and the key has at most one Post.                                       *)
C4_ConcurrentCreateOneCard ==
    faults = 0 =>
        \A p, q \in Procs :
            (p # q /\ cp[p].kind = "create" /\ cp[q].kind = "create"
                   /\ cp[p].msg = cp[q].msg) =>
                /\ ~(Placed(cp[p]) /\ Placed(cp[q]) /\ cp[p].loc # cp[q].loc)
                /\ ~(cp[p].result = "created" /\ cp[q].result = "created")
                /\ PostsOf(cp[p].msg) <= 1

(* C5 (as amended): an album has at most one Post in every reachable       *)
(* state, and the Post is of the album's first-arrived channel post unless *)
(* the handling of that one ended without a Post: every mode failed, or    *)
(* the store write of the handler raised.                                  *)
C5_AlbumOnePostFirstUnlessFailed ==
    \A a \in Albums :
        /\ Cardinality(AlbumRows(a)) <= 1
        /\ \A i \in AlbumRows(a) :
              posts[i].msg = first[a].msg \/ first[a].result \in {"failed", "error"}

\* the album's Post is of the first-arrived post, and a later post of the
\* album was handled and found it
C5_Witness ==
    \E a \in Albums, p \in Procs :
        /\ \E i \in AlbumRows(a) : posts[i].msg = first[a].msg /\ posts[i].msg # cp[p].msg
        /\ first[a].result = "created"
        /\ cp[p].kind = "post" /\ AlbumOf(cp[p].msg) = a
        /\ cp[p].pc = "done" /\ cp[p].result = "exists"

(* C5 (as claimed): an album has at most one Post in every reachable state *)
(* and it is of the album's first-arrived channel post.                    *)
C5_AlbumOnePostFirstArrived ==
    \A a \in Albums :
        /\ Cardinality(AlbumRows(a)) <= 1
        /\ \A i \in AlbumRows(a) : posts[i].msg = first[a].msg

(* C6: in a create_registration call the i-th mode attempted is the i-th   *)
(* of [preferred, next, next] in the cycle edit_channel, discussion_thread,*)
(* channel_reply_post, no mode is attempted twice, and two calls whose     *)
(* attempts had the same outcomes attempted the same modes and chose the   *)
(* same winner.                                                            *)
C6_FallbackOrderDeterministic ==
    /\ \A p \in Procs : cp[p].kind \in {"create", "post"} =>
          /\ Len(cp[p].attempts) <= 3
          /\ \A i \in DOMAIN cp[p].attempts :
                /\ cp[p].attempts[i].mode = CycleFrom(registration_mode)[i]
                /\ \A j \in DOMAIN cp[p].attempts :
                      cp[p].attempts[j].mode = cp[p].attempts[i].mode => i = j
    /\ \A p, q \in Procs :
          (cp[p].kind = "create" /\ cp[q].kind = "create"
              /\ Outcomes(cp[p]) = Outcomes(cp[q])) =>
                /\ ModesOf(cp[p]) = ModesOf(cp[q])
                /\ (cp[p].pc = "done" /\ cp[q].pc = "done") =>
                       Winner(cp[p]) = Winner(cp[q])

\* a call that went through the whole chain of a rotated preference
C6_Witness ==
    \E p \in Procs :
        /\ cp[p].kind = "create" /\ cp[p].pc = "done"
        /\ registration_mode = DISCUSSION_THREAD
        /\ ModesOf(cp[p]) = <<DISCUSSION_THREAD, CHANNEL_REPLY_POST, EDIT_CHANNEL>>
        /\ cp[p].attempts[3].ok

(* C7: in a create_registration call no mode is attempted after one that   *)
(* succeeded, and when the call returns True the Post stored for the key   *)
(* has the winning mode and the card location that mode returned.          *)
C7_FirstSuccessWins ==
    \A p \in Procs : cp[p].kind = "create" =>
        /\ \A i \in DOMAIN cp[p].attempts :
              cp[p].attempts[i].ok => i = Len(cp[p].attempts)
        /\ (cp[p].pc = "done" /\ cp[p].result = "created") =>
              LET post == GetPost(posts, cp[p].msg)
                  won == cp[p].attempts[Len(cp[p].attempts)]
              IN  /\ post # NoRow
                  /\ post.mode = won.mode
                  /\ post.registration_chat_id = cp[p].loc.chat
                  /\ post.registration_message_id = cp[p].loc.id

(* C8: a create_registration call in which every attempted mode failed     *)
(* returns False after all three modes and the step that ends it leaves    *)
(* the posts table as it was, so it has stored no Post; a later call for   *)
(* the key attempts the modes again, starting with the preferred one.      *)
C8_AllFailedNoPostRetryFromPreferred ==
    /\ [](\A p \in Procs : cp[p].kind = "create" =>
            /\ (cp[p].pc = "done" /\ AllFailed(cp[p]) /\ cp[p].attempts # <<>>) =>
                  /\ cp[p].result = "failed"
                  /\ ~cp[p].inserted
                  /\ ModesOf(cp[p]) = CycleFrom(registration_mode)
            /\ (cp[p].retry /\ cp[p].attempts # <<>>) =>
                  cp[p].attempts[1].mode = registration_mode
            /\ (cp[p].retry /\ cp[p].pc = "done" /\ cp[p].result = "failed") =>
                  ModesOf(cp[p]) = CycleFrom(registration_mode))
    /\ [][\A p \in Procs :
            (cp[p].pc # "done" /\ cp'[p].pc = "done" /\ cp'[p].kind = "create"
                /\ cp'[p].result = "failed") => posts' = posts]_vars

\* a retry of a failed call that failed in all three modes again, and the
\* key has no Post
C8_Witness ==
    \E p \in Procs :
        /\ cp[p].kind = "create" /\ cp[p].retry
        /\ cp[p].pc = "done" /\ cp[p].result = "failed"
        /\ AllFailed(cp[p]) /\ Len(cp[p].attempts) = 3
        /\ GetPost(posts, cp[p].msg) = NoRow

(* C9: with registration_mode discussion_thread, handling a channel post   *)
(* makes no mode attempt and no gateway call; once it is handled the key   *)
(* has exactly one Post, and while no copy of the post has been handled in *)
(* the discussion group that Post has mode discussion_thread and no card   *)
(* location, and no card exists for it.                                    *)
C9_PendingUntilMapping ==
    registration_mode = DISCUSSION_THREAD =>
        \A p \in Procs : cp[p].kind = "post" =>
            /\ cp[p].attempts = <<>>
            /\ cp[p].calls = 0
            /\ cp[p].result # "failed"
            /\ (cp[p].pc = "done" /\ cp[p].result = "pending") =>
                  /\ PostsOf(cp[p].msg) = 1
                  /\ cp[p].msg \notin mapped =>
                        /\ IsPending(GetPost(posts, cp[p].msg))
                        /\ GetPost(posts, cp[p].msg).registration_chat_id = NoChat
                        /\ \A c \in cards : c.src # cp[p].msg

\* a pending Post whose copy has not arrived, while other events were handled
C9_Witness ==
    \E p \in Procs :
        /\ registration_mode = DISCUSSION_THREAD
        /\ cp[p].kind = "post" /\ cp[p].pc = "done" /\ cp[p].result = "pending"
        /\ cp[p].inserted
        /\ cp[p].msg \notin mapped
        /\ mapped # {}
        /\ IsPending(GetPost(posts, cp[p].msg))

(* C10: complete_discussion_registration attempts discussion_thread only;  *)
(* when it succeeds the posts table has the same rows with the same modes  *)
(* and the Post of the key has the reply's location; when it fails the     *)
(* posts table is unchanged.                                               *)
C10_CompleteUpdatesInPlace ==
    /\ [](\A p \in Procs : cp[p].ctx = "complete" =>
            /\ Len(cp[p].attempts) <= 1
            /\ \A i \in DOMAIN cp[p].attempts :
                  cp[p].attempts[i].mode = DISCUSSION_THREAD
            /\ \A c \in cards : (c.src = cp[p].msg /\ c.id = cp[p].loc.id) =>
                  c.chat = discussion_group_id /\ c.reply_to # NoId)
    /\ [][\A p \in Procs :
            (cp[p].ctx = "complete" /\ cp[p].pc # "done" /\ cp'[p].pc = "done") =>
                IF cp'[p].result = "completed"
                    THEN /\ Len(posts') = Len(posts)
                         /\ \A i \in DOMAIN posts :
                               /\ posts'[i].mode = posts[i].mode
                               /\ posts'[i].msg = posts[i].msg
                               /\ posts[i].msg # cp[p].msg => posts'[i] = posts[i]
                         /\ GetPost(posts', cp[p].msg).registration_chat_id = cp[p].loc.chat
                         /\ GetPost(posts', cp[p].msg).registration_message_id = cp[p].loc.id
                    ELSE posts' = posts]_vars

\* a pending Post completed by the reply in the discussion group
C10_Witness ==
    \E p \in Procs :
        /\ cp[p].ctx = "complete" /\ cp[p].pc = "done" /\ cp[p].result = "completed"
        /\ GetPost(posts, cp[p].msg) # NoRow
        /\ GetPost(posts, cp[p].msg).mode = DISCUSSION_THREAD
        /\ GetPost(posts, cp[p].msg).registration_chat_id = Group
        /\ GetPost(posts, cp[p].msg).registration_message_id = cp[p].loc.id
        /\ cp[p].loc.id # NoId

(* C11: once handle_discussion_message has handled the copy of a source    *)
(* post, the Post of that source post, whenever it exists, carries the id  *)
(* of the copy, also when the copy was handled before the Post was stored. *)
C11_MappingBeforePostKept ==
    \A m \in Msgs :
        (/\ m \in mapped
         /\ ~MappingInProgress(m)
         /\ GetPost(posts, m) # NoRow) =>
            GetPost(posts, m).discussion_message_id = DiscussionIdOf(m)

C13_CreateUsesCapturedMapping ==
    /\ [](\A p \in Procs :
            (/\ cp[p].kind = "create" /\ cp[p].pc = "done"
             /\ \E i \in DOMAIN cp[p].attempts :
                  cp[p].attempts[i].mode = DISCUSSION_THREAD /\ cp[p].attempts[i].ok) =>
                Winner(cp[p]) = DISCUSSION_THREAD)
    /\ [][\A p \in Procs :
            (/\ cp[p].pc = "try_disc" /\ cp[p].ctx = "create"
             /\ discussion_group_id # NoChat
             /\ cp[p].msg \in mapped /\ ~MappingInProgress(cp[p].msg)
             /\ cp'[p] # cp[p]) =>
                /\ cp'[p].pc = "disc_send"
                /\ cp'[p].reply_to = DiscussionIdOf(cp[p].msg)]_vars

\* the time of the last recorded cast of user u on post m, NoTime when none
LastRecorded(m, u) == ledger[<<m, u>>].at

\* a step that is one whole cast_vote call
CastStep == casts' = casts + 1

\* C14: with a cooldown c > 0 a cast made less than c seconds after the user's
\* last recorded cast on the same post fails with RateLimited carrying
\* c - elapsed, every RateLimited carries 0 < seconds_remaining <= c, and with
\* c = 0 no cast is RateLimited
C14_RateLimitedWithinCooldown ==
    [][CastStep =>
         LET at == LastRecorded(lastResult'.msg, lastResult'.user)
         IN  /\ (vote_cooldown > 0 /\ at # NoTime /\ now - at < vote_cooldown)
                    => /\ lastResult'.outcome = "RateLimited"
                       /\ lastResult'.remaining = vote_cooldown - (now - at)
                       /\ votes' = votes
             /\ lastResult'.outcome = "RateLimited"
                    => /\ 0 < lastResult'.remaining
                       /\ lastResult'.remaining <= vote_cooldown
             /\ vote_cooldown = 0 => lastResult'.outcome # "RateLimited"]_vars

\* a cast one second after the recorded one, with a cooldown of two seconds,
\* was refused with one second remaining
C14_Witness ==
    /\ vote_cooldown = 2
    /\ lastResult.outcome = "RateLimited"
    /\ lastResult.remaining = 1
    /\ now - LastRecorded(lastResult.msg, lastResult.user) = 1

\* C15: with a cooldown > 0, a cast of a user on a post is never recorded less
\* than the cooldown after the previous recorded cast of that user on that post,
\* whatever the interleaving of the handler tasks
C15_ConcurrentCastsOneRecorded ==
    [][\A p \in VProcs :
          (/\ vote_cooldown > 0
           /\ vp[p].pc = "write"
           /\ vp'[p].pc = "done"
           /\ vp'[p].result = "Recorded")
          => LET at == LastRecorded(vp[p].msg, vp[p].user)
             IN  at = NoTime \/ now - at >= vote_cooldown]_vars

\* C16: a cast is RateLimited only by a recorded cast of the same user on the
\* same post: without one inside the cooldown, casts of that user on other
\* posts and of other users on that post do not make it fail
C16_RateLimitScopedToPostAndUser ==
    [][CastStep =>
         LET at == LastRecorded(lastResult'.msg, lastResult'.user)
         IN  (at = NoTime \/ now - at >= vote_cooldown)
                 => /\ lastResult'.outcome = "Recorded"
                    /\ ledger'[<<lastResult'.msg, lastResult'.user>>].at = now]_vars

\* user 1 has just cast on post 1, and in the same second user 1's cast on
\* post 2 and then user 2's cast on post 1 were recorded
C16_Witness ==
    /\ vote_cooldown > 0
    /\ LastRecorded(1, 1) = now
    /\ LastRecorded(2, 1) = now
    /\ LastRecorded(1, 2) = now
    /\ lastResult.outcome = "Recorded"
    /\ lastResult.user = 2
    /\ lastResult.msg = 1

\* the users with a recorded cast on post m
Casters(m) == {u \in Users : ledger[<<m, u>>].last # "none"}

\* the rows of the votes table of user u on post m
RowsOf(m, u) == {r \in votes : r.msg = m /\ r.user = u}

\* C17: changed_mind of a post is the number of users who have a recorded join
\* on it and whose latest recorded cast is not join; each user counts once
C17_ChangedMindCount ==
    \A m \in VoteMsgs :
        /\ GetChangedMindCount(votes, m) =
               Cardinality({u \in Casters(m) :
                               ledger[<<m, u>>].joined /\ ledger[<<m, u>>].last # "join"})
        /\ GetChangedMindCount(votes, m) <= Cardinality(Casters(m))

\* user 1 cast three times on post 1, at first not join, later join and at last
\* decline, and nobody else cast: changed_mind is 1
C17_Witness ==
    /\ casts = 3
    /\ lastResult.outcome = "Recorded"
    /\ Casters(1) = {1}
    /\ ledger[<<1, 1>>].first = "maybe"
    /\ ledger[<<1, 1>>].joined
    /\ ledger[<<1, 1>>].last = "decline"
    /\ GetChangedMindCount(votes, 1) = 1

\* C18: a post has exactly one Vote per user with a recorded cast, each user is
\* counted under the status of their latest recorded cast only, and
\* join + maybe + decline is the number of distinct users who have cast
C18_OneVotePerUserCounts ==
    \A m \in VoteMsgs :
        LET counts == GetVoteCounts(votes, m)
        IN  /\ \A u \in Users :
                  Cardinality(RowsOf(m, u)) = IF u \in Casters(m) THEN 1 ELSE 0
            /\ \A s \in Statuses :
                  counts[s] = Cardinality({u \in Casters(m) : ledger[<<m, u>>].last = s})
            /\ counts["join"] + counts["maybe"] + counts["decline"]
                   = Cardinality(Casters(m))

\* both users cast on post 1, user 1 twice with different statuses
C18_Witness ==
    /\ casts = 3
    /\ Casters(1) = {1, 2}
    /\ ledger[<<1, 1>>].first # ledger[<<1, 1>>].last
    /\ GetVoteCounts(votes, 1)[ledger[<<1, 1>>].first] = 0
    /\ GetVoteCounts(votes, 1)[ledger[<<1, 1>>].last] >= 1

\* C19: the first recorded cast of a user on a post creates the Vote with
\* first_status = status and ever_joined = (status is join); every later
\* recorded cast leaves first_status as it was, sets status to the new status
\* and updated_at to the time of the cast
C19_FirstStatusKept ==
    [][(CastStep /\ lastResult'.outcome = "Recorded") =>
          LET m == lastResult'.msg
              u == lastResult'.user
              old == SelectVote(votes, m, u)
              new == SelectVote(votes', m, u)
          IN  /\ new # NoRow
              /\ new.updated_at = now
              /\ new.status = ledger'[<<m, u>>].last
              /\ IF ledger[<<m, u>>].last = "none"
                    THEN /\ old = NoRow
                         /\ new.first_status = new.status
                         /\ new.ever_joined = (IF new.status = "join" THEN 1 ELSE 0)
                    ELSE /\ old # NoRow
                         /\ new.first_status = old.first_status
                         /\ new.first_status = ledger[<<m, u>>].first]_vars

\* a later cast changed the status of a Vote created earlier and at another time
C19_Witness ==
    /\ lastResult.outcome = "Recorded"
    /\ LET r == SelectVote(votes, lastResult.msg, lastResult.user)
       IN  /\ r # NoRow
           /\ r.first_status = "maybe"
           /\ r.status = "join"
           /\ r.updated_at = 2

\* the number of users with a recorded join on post m whose latest recorded
\* cast is not join
ChangedMindOf(m) ==
    Cardinality({u \in Casters(m) :
                    ledger[<<m, u>>].joined /\ ledger[<<m, u>>].last # "join"})

\* a step in which update_registration sent a card payload the gateway accepted
RenderSent == payload'.sent = payload.sent + 1

\* C20: a render with no cast running puts in the card payload the join, maybe
\* and decline counts of the votes committed at that moment; the changed-mind
\* count is in the payload exactly when show_changed_mind_stats is on and the
\* count is positive, and then it is the count of the committed votes
C20_RenderShowsCommittedCounts ==
    [][RenderSent =>
         LET m == payload'.src
             text == payload'.text
         IN  /\ \A s \in Statuses :
                   text[s] = Cardinality({u \in Casters(m) : ledger[<<m, u>>].last = s})
             /\ text.changed_shown = (show_changed_mind_stats /\ ChangedMindOf(m) > 0)
             /\ text.changed_shown => text.changed_mind = ChangedMindOf(m)
             /\ votes' = votes]_vars

\* the card of post 1 was rendered after both users cast join on it
C20_Witness ==
    /\ payload.sent > 0
    /\ payload.src = 1
    /\ Casters(1) = {1, 2}
    /\ \A u \in Users : ledger[<<1, u>>].last = "join" /\ ledger[<<1, u>>].first = "join"
    /\ payload.text = [join |-> 2, maybe |-> 0, decline |-> 0,
                       changed_shown |-> FALSE, changed_mind |-> 0]

\* C20 as stated: the payload carries all four counts of the committed votes,
\* changed_mind included (a payload without the changed-mind line read as 0)
C20_RenderShowsAllCounts ==
    [][RenderSent =>
         LET m == payload'.src
             text == payload'.text
         IN  /\ \A s \in Statuses :
                   text[s] = Cardinality({u \in Casters(m) : ledger[<<m, u>>].last = s})
             /\ text.changed_mind = ChangedMindOf(m)]_vars

\* the users whose latest recorded cast on post m has status s
CastersWith(m, s) == {u \in Casters(m) : ledger[<<m, u>>].last = s}

\* C21: every list get_voters_by_status can return for a status holds each user
\* whose latest recorded cast on the post has that status exactly once, nobody
\* else, and in ascending order of the time of that cast
C21_VotersByStatusOrdered ==
    \A m \in VoteMsgs, s \in Statuses :
        \A q \in GetVotersByStatus(votes, m, s) :
            /\ {q[i] : i \in DOMAIN q} = CastersWith(m, s)
            /\ Len(q) = Cardinality(CastersWith(m, s))
            /\ \A i, j \in DOMAIN q :
                  i < j => LastRecorded(m, q[i]) <= LastRecorded(m, q[j])

\* both users last cast join on post 1, user 2 before user 1, and the only
\* list for join is user 2, then user 1
C21_Witness ==
    /\ CastersWith(1, "join") = {1, 2}
    /\ LastRecorded(1, 2) < LastRecorded(1, 1)
    /\ GetVotersByStatus(votes, 1, "join") = {<<2, 1>>}
    /\ GetVotersByStatus(votes, 1, "maybe") = {<<>>}

\* C22: user_has_voted is true exactly for the users with a recorded cast on
\* the post, whatever its status (a RateLimited or failed cast records
\* nothing), and once true it stays true
C22_HasVotedIffRecordedCast ==
    /\ [](\A m \in VoteMsgs, u \in Users :
             UserHasVoted(votes, m, u) <=> u \in Casters(m))
    /\ [][\A m \in VoteMsgs, u \in Users :
             UserHasVoted(votes, m, u) => UserHasVoted(votes', m, u)]_vars

\* the upsert of user 1's cast on post 1 failed and user 1 has not voted,
\* while user 2, who declined, has
C22_Witness ==
    /\ lastResult.outcome = "VoteFailure"
    /\ lastResult.fault = "upsert"
    /\ lastResult.user = 1 /\ lastResult.msg = 1
    /\ ~UserHasVoted(votes, 1, 1)
    /\ ledger[<<1, 2>>].last = "decline"
    /\ UserHasVoted(votes, 1, 2)

\* C23: a cast_vote call ends as Recorded, RateLimited or VoteFailure; a call
\* in which the rate-limit read or the upsert raised ends as VoteFailure and
\* changes no vote (nothing is tried again), VoteFailure has no other cause,
\* and a cast inside the cooldown whose read worked ends as RateLimited
C23_CastOutcomes ==
    [][CastStep =>
         LET r == lastResult'
             at == LastRecorded(r.msg, r.user)
             hit == vote_cooldown > 0 /\ at # NoTime /\ now - at < vote_cooldown
         IN  /\ r.outcome \in {"Recorded", "RateLimited", "VoteFailure"}
             /\ r.fault # "none" => (r.outcome = "VoteFailure" /\ votes' = votes)
             /\ r.outcome = "VoteFailure" => r.fault # "none"
             /\ (hit /\ r.fault # "read") => r.outcome = "RateLimited"
             /\ r.outcome = "Recorded" <=> (r.fault = "none" /\ ~hit)]_vars

\* the rate-limit read of a cast made inside the cooldown raised, and the cast
\* ended as VoteFailure
C23_Witness ==
    /\ lastResult.outcome = "VoteFailure"
    /\ lastResult.fault = "read"
    /\ vote_cooldown > 0
    /\ LastRecorded(lastResult.msg, lastResult.user) = now

\* a step in which task p ran create_post (from create_registration or from the
\* handler's pending branch) and the call did not raise
InsertStep(p) ==
    /\ cp[p].pc \in {"persist", "h_pending"}
    /\ cp'[p] # cp[p]
    /\ faults' = faults

\* C24: under any interleaving of the handlers there is at most one Post per
\* source message, and a create_post for a key that has a Post changes nothing
C24_OnePostPerKey ==
    /\ [](\A m \in Msgs : PostsOf(m) <= 1)
    /\ [][\A p \in Procs :
             (InsertStep(p) /\ PostsOf(cp[p].msg) >= 1) => posts' = posts]_vars

\* two handlers of the same source post ran together: one stored the Post, and
\* the pending Post the other one tried to insert was rejected
C24_Witness ==
    \E p \in Procs :
        /\ cp[p].pc = "done"
        /\ cp[p].result = "pending"
        /\ ~cp[p].inserted
        /\ PostsOf(cp[p].msg) = 1

\* C25: in every Post the card chat and the card message id are both NULL or
\* both set, whatever create_registration, the pending branch, the completion
\* and the repair of update_registration have done
C25_CardLocationWhole ==
    \A i \in DOMAIN posts :
        (posts[i].registration_chat_id = NoChat)
            <=> (posts[i].registration_message_id = NoId)

\* the Post of source post 1 had no card location, no card was ever placed for
\* it, and a refresh repaired it to the location of the source post
C25_Witness ==
    /\ lastRender.msg = 1
    /\ lastRender.edits = 1
    /\ \A c \in cards : c.src # 1
    /\ GetPost(posts, 1) # NoRow
    /\ GetPost(posts, 1).registration_chat_id = Channel
    /\ GetPost(posts, 1).registration_message_id = 1

\* a step that is one whole update_registration call
RenderStep == lastRender' # lastRender \/ payload' # payload

\* C26: update_registration on a Post without card location whose mode is
\* discussion_thread or channel_reply_post returns failure, sends no edit and
\* leaves the Post as it was
C26_NoRepairForReplyModes ==
    [][(/\ RenderStep
        /\ GetPost(posts, lastRender'.msg) # NoRow
        /\ MissingLocation(GetPost(posts, lastRender'.msg))
        /\ GetPost(posts, lastRender'.msg).mode \in {DISCUSSION_THREAD, CHANNEL_REPLY_POST})
       => /\ lastRender'.result = "missing_location"
          /\ lastRender'.edits = 0
          /\ payload' = payload
          /\ posts' = posts]_vars

\* the handler stored source post 1 as a pending discussion_thread Post, and a
\* refresh of its card returned failure without an edit
C26_Witness ==
    /\ \E p \in Procs : cp[p].pc = "done" /\ cp[p].msg = 1 /\ cp[p].result = "pending"
                        /\ cp[p].inserted
    /\ GetPost(posts, 1) # NoRow
    /\ GetPost(posts, 1).mode = DISCUSSION_THREAD
    /\ MissingLocation(GetPost(posts, 1))
    /\ lastRender.msg = 1
    /\ lastRender.result = "missing_location"
    /\ lastRender.edits = 0
    /\ payload = NoPayload

\* a step that is one whole handle_voters call
VotersStep == lastVoters'.requests = lastVoters.requests + 1

\* C27: with require_vote_to_see_voters on, a voters request of a user without
\* a recorded cast on the post ends without a voters message (refused, or
\* answered with an error), and a request of a user with one goes on to build
\* the lists and to the send
C27_VotersListRequiresVote ==
    [][(VotersStep /\ require_vote_to_see_voters) =>
         LET r == lastVoters'
         IN  IF r.user \in Casters(r.msg)
                THEN r.result \in {"sent", "send_failed", "no_thread", "no_group"}
                ELSE /\ r.result \in {"refused", "error"}
                     /\ r.sent = NoId
                     /\ posts' = posts]_vars

\* C28: a finished create_registration call reports created only if it
\* inserted the Post of the key itself, and an attempt that placed a card but
\* whose Post was not stored (the write raised or was rejected) is the call's
\* last attempt and does not end in created
C28_CreatedOnlyIfPersisted ==
    \A p \in Procs :
        (cp[p].pc = "done" /\ cp[p].kind = "create") =>
            /\ cp[p].result = "created" => cp[p].inserted
            /\ \A i \in DOMAIN cp[p].attempts :
                  (cp[p].attempts[i].ok /\ cp[p].attempts[i].stored # "ok")
                      => (i = Len(cp[p].attempts) /\ cp[p].result # "created")

\* C29: when a mode attempt of create_registration fails, the call goes on
\* with the next mode of the chain and never with the failed one again, and
\* after the third failed attempt it returns failure; no call makes more than
\* three attempts
C29_FailedModeNotRetried ==
    /\ [](\A p \in Procs : cp[p].kind = "create" => Len(cp[p].attempts) <= 3)
    /\ [][\A p \in Procs :
            (/\ cp[p].kind = "create"
             /\ Len(cp'[p].attempts) = Len(cp[p].attempts) + 1
             /\ ~cp'[p].attempts[Len(cp'[p].attempts)].ok)
            => LET n == Len(cp'[p].attempts)
               IN  IF n < 3
                      THEN /\ cp'[p].pc # "done"
                           /\ cp'[p].idx = n + 1
                           /\ cp'[p].pc = ModePc(CycleFrom(registration_mode)[n + 1])
                      ELSE /\ cp'[p].pc = "done"
                           /\ cp'[p].result = "failed"]_vars

\* a call with channel_reply_post preferred failed in that mode, then in
\* edit_channel, then in discussion_thread, and returned failure
C29_Witness ==
    \E p \in Procs :
        /\ cp[p].kind = "create" /\ cp[p].pc = "done" /\ cp[p].result = "failed"
        /\ registration_mode = CHANNEL_REPLY_POST
        /\ ModesOf(cp[p]) = <<CHANNEL_REPLY_POST, EDIT_CHANNEL, DISCUSSION_THREAD>>
        /\ AllFailed(cp[p])

\* the attempt task p has just recorded
LastAttempt(rec) == rec.attempts[Len(rec.attempts)]

\* C30: a channel_reply_post attempt sends the card as a reply to the source
\* post; only when that send is rejected it sends once more, a plain message
\* with the link button; the attempt succeeds with the location (channel, id of
\* the accepted message) if either send is accepted and fails after the second
\* rejection, so it makes at most two sends
C30_ChannelReplyTwoSends ==
    [][\A p \in Procs :
         /\ (cp[p].pc = "try_reply" /\ cp'[p] # cp[p]) =>
               /\ cp'[p].calls = cp[p].calls + 1
               /\ \/ /\ cp'[p].pc = "try_plain"
                     /\ cp'[p].attempts = cp[p].attempts
                     /\ cards' = cards
                  \/ /\ Len(cp'[p].attempts) = Len(cp[p].attempts) + 1
                     /\ LastAttempt(cp'[p]).mode = CHANNEL_REPLY_POST
                     /\ LastAttempt(cp'[p]).ok
                     /\ cp'[p].loc = [chat |-> Channel, id |-> nextId]
                     /\ cards' = cards \cup {[src |-> cp[p].msg, chat |-> Channel,
                                              id |-> nextId, reply_to |-> cp[p].msg,
                                              link |-> FALSE]}
         /\ (cp[p].pc = "try_plain" /\ cp'[p] # cp[p]) =>
               /\ cp'[p].calls = cp[p].calls + 1
               /\ cp'[p].pc \notin {"try_plain", "try_reply"}
               /\ Len(cp'[p].attempts) = Len(cp[p].attempts) + 1
               /\ LastAttempt(cp'[p]).mode = CHANNEL_REPLY_POST
               /\ IF LastAttempt(cp'[p]).ok
                     THEN /\ cp'[p].loc = [chat |-> Channel, id |-> nextId]
                          /\ cards' = cards \cup {[src |-> cp[p].msg, chat |-> Channel,
                                                   id |-> nextId, reply_to |-> NoId,
                                                   link |-> TRUE]}
                     ELSE cards' = cards
         /\ (cp'[p].pc = "try_plain" /\ cp[p].pc # "try_plain") => cp[p].pc = "try_reply"
      ]_vars

\* a call whose reply was rejected placed the card as a plain message with the
\* link button and stored that message as the card location
C30_Witness ==
    \E p \in Procs :
        /\ cp[p].kind = "create" /\ cp[p].pc = "done" /\ cp[p].result = "created"
        /\ Winner(cp[p]) = CHANNEL_REPLY_POST
        /\ \E c \in cards : /\ c.src = cp[p].msg /\ c.link /\ c.reply_to = NoId
                            /\ c.id = cp[p].loc.id
                            /\ GetPost(posts, cp[p].msg).registration_message_id = c.id
                            /\ GetPost(posts, cp[p].msg).registration_chat_id = Channel

\* the Post of source post m in table ps2 is the one in ps with its card
\* location set to (chat, id) and every other field, and every other Post, as
\* it was
OnlyLocationSet(ps, ps2, m, chat, id) ==
    /\ Len(ps2) = Len(ps)
    /\ \A i \in DOMAIN ps :
          IF ps[i].msg = m
              THEN ps2[i] = [ps[i] EXCEPT !.registration_chat_id = chat,
                                          !.registration_message_id = id]
              ELSE ps2[i] = ps[i]

\* the call is update_registration on an edit_channel Post without card location
RepairCase ==
    /\ RenderStep
    /\ GetPost(posts, lastRender'.msg) # NoRow
    /\ GetPost(posts, lastRender'.msg).mode = EDIT_CHANNEL
    /\ MissingLocation(GetPost(posts, lastRender'.msg))

\* C31 (as amended): update_registration on an edit_channel Post without card
\* location sets the card location to (channel, source message id), leaves the
\* mode, the other fields and the other Posts as they were and issues the edit
\* at that location, unless the store update of the repair raises: then it
\* returns failure, issues no edit and leaves the posts table as it was
C31_RepairUnlessStoreFails ==
    [][RepairCase =>
         LET m == lastRender'.msg
         IN  IF faults' = faults
                THEN /\ OnlyLocationSet(posts, posts', m, Channel, m)
                     /\ GetPost(posts', m).mode = EDIT_CHANNEL
                     /\ lastRender'.edits = 1
                     /\ lastRender'.at = [chat |-> Channel, id |-> m]
                     /\ lastRender'.accepted =>
                           (payload'.chat = Channel /\ payload'.id = m /\ payload'.src = m)
                ELSE /\ lastRender'.result = "missing_location"
                     /\ lastRender'.edits = 0
                     /\ posts' = posts
                     /\ payload' = payload]_vars

\* with discussion_thread preferred, the edit_channel Post of source post 1
\* that had no card location was repaired by a refresh and the gateway accepted
\* the edit of the source post itself
C31_Witness ==
    /\ registration_mode = DISCUSSION_THREAD
    /\ lastRender.msg = 1 /\ lastRender.result = "ok" /\ lastRender.accepted
    /\ lastRender.at = [chat |-> Channel, id |-> 1]
    /\ payload.sent = 1 /\ payload.chat = Channel /\ payload.id = 1
    /\ \A c \in cards : c.src # 1
    /\ GetPost(posts, 1) = [UnplacedPost(EDIT_CHANNEL) EXCEPT
                               !.registration_chat_id = Channel,
                               !.registration_message_id = 1]

\* C31 (as claimed): update_registration on an edit_channel Post without card
\* location always sets the card location to (channel, source message id),
\* changes nothing else and issues the edit at that location
C31_RepairAlwaysSucceeds ==
    [][RepairCase =>
         LET m == lastRender'.msg
         IN  /\ OnlyLocationSet(posts, posts', m, Channel, m)
             /\ lastRender'.edits = 1
             /\ lastRender'.at = [chat |-> Channel, id |-> m]]_vars

\* C32 (as amended): an update_registration call issues at most one edit; for
\* a source post without Post it issues none and returns failure; when the
\* gateway rejects the edit it returns failure and the card payload stays; no
\* call changes a vote, and the only change a call makes to the posts table is
\* the repair of the card location of an edit_channel Post that had none, which
\* stays also when the edit that follows is rejected
C32_RenderOneEditRepairKept ==
    [][RenderStep =>
         LET m == lastRender'.msg
             post == GetPost(posts, m)
         IN  /\ lastRender'.edits <= 1
             /\ payload'.sent <= payload.sent + 1
             /\ payload' # payload => (lastRender'.edits = 1 /\ lastRender'.accepted)
             /\ post = NoRow =>
                   /\ lastRender'.edits = 0
                   /\ lastRender'.result = "not_found"
                   /\ posts' = posts
             /\ (lastRender'.edits = 1 /\ ~lastRender'.accepted) =>
                   /\ lastRender'.result = "rejected"
                   /\ payload' = payload
             /\ votes' = votes
             /\ posts' # posts =>
                   /\ post # NoRow /\ post.mode = EDIT_CHANNEL /\ MissingLocation(post)
                   /\ OnlyLocationSet(posts, posts', m, Channel, m)]_vars

\* a refresh repaired the edit_channel Post of source post 1, the gateway
\* rejected its one edit, the call returned failure and the repair stayed
C32_Witness ==
    /\ lastRender.msg = 1
    /\ lastRender.result = "rejected"
    /\ lastRender.edits = 1
    /\ ~lastRender.accepted
    /\ payload = NoPayload
    /\ \A c \in cards : c.src # 1
    /\ GetPost(posts, 1) # NoRow
    /\ GetPost(posts, 1).mode = EDIT_CHANNEL
    /\ GetPost(posts, 1).registration_message_id = 1

\* C32 (as claimed): an update_registration call issues at most one edit, none
\* for a source post without Post, returns failure when the gateway rejects the
\* edit, and in both cases changes no Post and no vote
C32_RenderChangesNothing ==
    [][RenderStep =>
         LET m == lastRender'.msg
             post == GetPost(posts, m)
         IN  /\ lastRender'.edits <= 1
             /\ post = NoRow =>
                   /\ lastRender'.edits = 0
                   /\ posts' = posts /\ votes' = votes
             /\ (lastRender'.edits = 1 /\ ~lastRender'.accepted) =>
                   /\ lastRender'.result = "rejected"
                   /\ posts' = posts /\ votes' = votes]_vars

\* task p is a handle_channel_post of an album post that found no marker and
\* added it (line 50), and has not returned yet
RunningAdder(p, a) ==
    /\ cp[p].kind = "post"
    /\ AlbumOf(cp[p].msg) = a
    /\ cp[p].result # "skipped"
    /\ cp[p].pc \notin {"idle", "done"}

\* C33: the marker of an album is set exactly while the handler that added it
\* is running, so it is gone once that handler has returned by any path
\* (registration created, registration exists, all modes failed, exception),
\* at most one handler at a time has added it, and a step takes the marker
\* away only when it ends the handler that added it
C33_MarkerClearedByAdder ==
    /\ [](\A a \in Albums :
            /\ a \in processing <=> \E p \in Procs : RunningAdder(p, a)
            /\ \A p, q \in Procs : (RunningAdder(p, a) /\ RunningAdder(q, a)) => p = q
            /\ \A p \in Procs :
                  (cp[p].kind = "post" /\ AlbumOf(cp[p].msg) = a /\ cp[p].pc = "done")
                      => cp[p].result \in {"skipped", "exists", "created", "failed",
                                           "pending", "error"})
    /\ [][\A a \in Albums :
            (a \in processing /\ a \notin processing') =>
                \E p \in Procs : RunningAdder(p, a) /\ cp'[p].pc = "done"
                                 /\ cp'[p].result # "skipped"]_vars

\* the store write of the handler that added the marker raised, the marker is
\* gone, and the handler of another post of the album that arrived meanwhile
\* was skipped without touching it
C33_Witness ==
    \E p, q \in Procs :
        /\ cp[p].kind = "post" /\ cp[p].pc = "done" /\ cp[p].result = "error"
        /\ cp[q].kind = "post" /\ cp[q].pc = "done" /\ cp[q].result = "skipped"
        /\ AlbumOf(cp[p].msg) = AlbumOf(cp[q].msg)
        /\ cp[p].msg # cp[q].msg
        /\ processing = {}

\* C34: when the handlers of two button presses by different users on source
\* post 1 have both finished, in whatever way their steps interleaved, and the
\* gateway accepted both edits, the payload of the last edit delivered to the
\* card is the text of the votes now in the store
C34_LastEditShowsAllVotes ==
    (/\ \A p \in VProcs : /\ vp[p].kind = "press" /\ vp[p].pc = "answered"
                          /\ vp[p].msg = 1 /\ vp[p].render = "ok"
     /\ vp[1].user # vp[2].user)
    => /\ payload.src = 1
       /\ payload.text = RegistrationText(votes, 1, show_changed_mind_stats)

\* the cards sent to the discussion group for source post m
GroupCards(m) == {c \in cards : c.src = m /\ c.chat = Group}

\* C35: when the copy of a source post whose Post is pending is delivered
\* twice and the two handle_discussion_message tasks run in any interleaving,
\* with no store error, at most one card is sent to the discussion group for
\* the source post and a card location the Post has is the location of it
C35_TwoMappingsOneCard ==
    \A p, q \in Procs :
        (/\ p # q /\ faults = 0
         /\ cp[p].kind = "mapping" /\ cp[q].kind = "mapping"
         /\ cp[p].msg = cp[q].msg)
        => LET m == cp[p].msg
               post == GetPost(posts, m)
           IN  /\ Cardinality(GroupCards(m)) <= 1
               /\ (post # NoRow /\ post.registration_message_id # NoId) =>
                     \E c \in GroupCards(m) : c.id = post.registration_message_id

(* C36: a card the engine posted to the channel, delivered back as a channel *)
(* post, is never processed as a source post under either content filter:    *)
(* no registration record is created for it and no further card is sent for  *)
(* it.                                                                        *)
C36_CardNeverProcessed ==
    /\ \A i \in DOMAIN posts : posts[i].msg \in Msgs
    /\ \A c \in cards : c.src \in Msgs
    /\ \A p \in Procs :
          (cp[p].kind = "post" /\ cp[p].msg \notin Msgs) =>
              (cp[p].pc = "done" /\ cp[p].result = "filtered")

(* C37: every value VoteRepository.get_counts returns, also when cast_vote   *)
(* calls on the same post run between its reads, holds no more changed-mind  *)
(* users than users whose vote is maybe or decline.                          *)
C37_ReturnedCountsConsistent ==
    \A p \in VProcs :
        (vp[p].kind = "counts" /\ vp[p].pc = "returned") =>
            vp[p].changed_mind <= vp[p].counts["maybe"] + vp[p].counts["decline"]

\* the step is a cast_vote call that ended with RateLimitError
ServiceRateLimited ==
    /\ casts' = casts + 1
    /\ vp' = vp
    /\ lastResult'.outcome = "RateLimited"

\* the step is the rate check of handler p, which found the press too early
HandlerRateLimited(p) ==
    /\ vp[p].pc = "ratecheck"
    /\ vp'[p].pc = "done"
    /\ vp'[p].result = "RateLimited"

\* nothing of the store and nothing of the card is touched by the step
StoreAndCardKept ==
    /\ votes' = votes
    /\ posts' = posts
    /\ ledger' = ledger
    /\ payload' = payload
    /\ lastRender' = lastRender

(* C38: a cast that is rejected as rate limited, by cast_vote or by the       *)
(* button-press handler, leaves every vote row and every registration record *)
(* as it was, and the handler that rejected the press goes on to nothing     *)
(* but its return: it never reaches update_registration and no edit is sent. *)
C38_RateLimitedChangesNothing ==
    [][/\ ServiceRateLimited => StoreAndCardKept
       /\ \A p \in VProcs :
            /\ HandlerRateLimited(p) => StoreAndCardKept
            /\ (vp[p].result = "RateLimited" /\ vp'[p] # vp[p]) =>
                  (vp'[p] = IdleVp /\ StoreAndCardKept)]_vars

\* both the service and the handler have rejected a cast of a user whose
\* vote is stored
C38_Witness ==
    /\ lastResult.outcome = "RateLimited"
    /\ \E p \in VProcs :
          /\ vp[p].pc = "done" /\ vp[p].result = "RateLimited"
          /\ \E r \in votes : r.user = vp[p].user /\ r.msg = vp[p].msg

\* what cast_vote(m, u, s) returns when called in the current state
ServiceOutcome(m, u) ==
    CastOutcome(RateLimited(GetLastVoteTime(votes, m, u), now, vote_cooldown), "none")

\* the vote table cast_vote(m, u, s) leaves when called in the current state
ServiceVotes(m, u, s) ==
    IF ServiceOutcome(m, u) = "Recorded"
        THEN UpsertWrite(votes, SelectVote(votes, m, u), m, u, s, now)
        ELSE votes

(* C39: a button press handled with no other task in between ends as a      *)
(* cast_vote call with the same arguments on the same store, clock and       *)
(* cooldown would: the same rate-limit decision and the same vote table; and *)
(* the handler of a recorded press, and only that handler, then runs         *)
(* update_registration for the post exactly once before it returns.          *)
C39_HandlerEquivalentToCastVote ==
    [][\A p \in VProcs :
        LET m == vp[p].msg
            u == vp[p].user
        IN  /\ (vp[p].pc = "ratecheck" /\ vp'[p] # vp[p]) =>
                  /\ (vp'[p].pc = "done") = (ServiceOutcome(m, u) = "RateLimited")
                  /\ vp'[p].pc = "done" => vp'[p].result = "RateLimited"
                  /\ votes' = votes
            /\ (vp[p].pc = "read" /\ vp'[p] # vp[p]) =>
                  /\ ServiceOutcome(m, u) = "Recorded"
                  /\ votes' = votes
            /\ (vp[p].pc = "write" /\ vp'[p] # vp[p]) =>
                  /\ ServiceOutcome(m, u) = "Recorded"
                  /\ vp'[p].result = "Recorded"
                  /\ votes' = ServiceVotes(m, u, vp[p].status)
            /\ (vp[p].kind = "press" /\ vp[p].pc = "done" /\ vp'[p] # vp[p]) =>
                  IF vp[p].result = "Recorded"
                      THEN vp'[p].pc \in {"r_counts", "answered"} /\ vp'[p].msg = m
                      ELSE vp'[p] = IdleVp
            /\ (vp[p].pc = "answered" /\ vp'[p] # vp[p]) =>
                  /\ vp[p].result = "Recorded"
                  /\ vp[p].render # "none"
                  /\ vp'[p] = IdleVp]_vars

\* with a cooldown set, a press was recorded and its card edit accepted after
\* a cast_vote call had recorded a vote
C39_Witness ==
    /\ vote_cooldown > 0
    /\ lastResult.outcome = "Recorded"
    /\ \E p \in VProcs :
          /\ vp[p].pc = "answered" /\ vp[p].render = "ok"
          /\ \E r \in votes : r.user = vp[p].user /\ r.status = vp[p].status

\* the copy of source post m was delivered when m's registration record was
\* stored, and the record still waits for its card
DeliveredPending(m) ==
    /\ IsPending(GetPost(posts, m))
    /\ \E p \in Procs : cp[p].kind = "mapping" /\ cp[p].msg = m /\ cp[p].pre

(* C40: in the bot as main assembles it, with discussion_thread the preferred *)
(* mode, a pending registration record whose copy has been delivered to the   *)
(* discussion group eventually gets its card location.                        *)
C40_PendingEventuallyLocated ==
    \A m \in Msgs :
        (registration_mode = DISCUSSION_THREAD /\ DeliveredPending(m))
            ~> ~IsPending(GetPost(posts, m))

====
